---- MODULE Spec2Model ----
(***************************************************************************)
(* Entify: probabilistic entity resolution.                                *)
(*                                                                         *)
(* Two programs are modelled.                                              *)
(*   - the backend engine (src/backend/engine.py): a DuckDB table, a       *)
(*     Splink linker and its predictions, and the read queries on them;    *)
(*   - the browser matcher (src/frontend/public/python/splink_worker.py):  *)
(*     SplinkCompatibleMatcher, which builds and runs one SQL query.       *)
(* Spec is the engine's state machine, WorkerSpec the matcher's.           *)
(* ServiceSpec is the API's service (one engine per run), TranspilerSpec   *)
(* the rule transpiler, EstimationSpec the training step of a run, and     *)
(* ProcessSpec several API processes that share /tmp.  QuerySpec is the    *)
(* engine with its runs numbered and its statistics queries, SettingsSpec  *)
(* the settings dictionary a caller hands to a run, DemoSpec main.py's     *)
(* demonstration on the five dummy records, ApiSpec the results endpoints  *)
(* of the API, and LogSpec its training-log stream.                        *)
(*                                                                         *)
(* Numbers.  Probabilities and thresholds are integers in percent          *)
(* (0.95 is 95).  Match weights of the browser matcher are fixed-point     *)
(* numbers in units of 1/WUNIT.                                            *)
(***************************************************************************)
EXTENDS Integers, Sequences, FiniteSets, TLC

VARIABLES
    table,        \* engine: the DuckDB table input_data (the ids of its records)
    linker,       \* engine: self.linker
    predictions,  \* engine: self.predictions
    result,       \* engine: what the last call returned or raised
    browser_table,\* matcher: the DuckDB-WASM table (id -> record)
    matcher,      \* matcher: the SplinkCompatibleMatcher object (its parsed settings)
    matches,      \* matcher: what the last predict() returned or raised
    service,      \* service: the SplinkService of the API process and its last response
    resolution,   \* engine: the progress of one run_resolution call, step by step
    transpiled,   \* transpiler: a frontend rule and what RuleTranspiler made of it
    sessions,     \* processes: the SplinkService of each API process, step by step
    tmp,          \* processes: the files of /tmp, which the processes share
    caller_settings, \* caller: the settings dictionary the caller hands to a run
    training_log_queue, \* api: the global queue of training log entries
    emitted,      \* api: how many entries emit_training_log has put so far
    streams       \* api: the events each connected stream client has been sent

vars == <<table, linker, predictions, result, browser_table, matcher, matches,
          service, resolution, transpiled, sessions, tmp,
          caller_settings, training_log_queue, emitted, streams>>
engine_vars == <<table, linker, predictions, result>>
matcher_vars == <<browser_table, matcher, matches>>
service_vars == <<service>>
resolution_vars == <<resolution>>
transpiler_vars == <<transpiled>>
process_vars == <<sessions, tmp>>
settings_vars == <<caller_settings>>
log_vars == <<training_log_queue, emitted, streams>>

NULL == "None"

\* A variable that may hold None is a record with the flag none.
NoTable       == [none |-> TRUE, ids |-> {}]
NoLinker      == [none |-> TRUE, nodes |-> {}, blocking_rules |-> <<>>]
NoPredictions == [none |-> TRUE, rows |-> {}]

Table(ids)       == [none |-> FALSE, ids |-> ids]
Predictions(rows) == [none |-> FALSE, rows |-> rows]
NoMatcher     == [none |-> TRUE, blocking_rules |-> <<>>, comparisons |-> <<>>]

\* The parts of the program a specification leaves alone stay as they are here.
NoService      == [engine_none |-> TRUE, started |-> 0, linker_run |-> 0,
                   predictions_run |-> 0, response |-> [op |-> "none"]]
ServiceIdle    == service = NoService
ResolutionIdle == resolution = [pc |-> "idle"]
TranspilerIdle == transpiled = [pc |-> "idle"]
ProcessesIdle  == sessions = <<>> /\ tmp = <<>>
SettingsIdle   == caller_settings = [pc |-> "idle"]
LogsIdle       == training_log_queue = <<>> /\ emitted = 0 /\ streams = <<>>

(***************************************************************************)
(* Bounds of the model.                                                    *)
(***************************************************************************)
\* Largest record id of an ingested dataset (ids are 1..MaxRecords).
MaxRecords == 3

\* Match probabilities (percent) the linker's model may give a comparison vector.
Probs == {40, 70, 85, 95}

\* Thresholds (percent) the callers pass to the read queries.
Thresholds == {30, 50, 80, 90, 100}

----------------------------------------------------------------------------
(***************************************************************************)
(* Small helpers.                                                          *)
(***************************************************************************)
Min(S) == CHOOSE x \in S : \A y \in S : x <= y
Max(S) == CHOOSE x \in S : \A y \in S : x >= y

RECURSIVE SumSeq(_)
SumSeq(s) == IF s = <<>> THEN 0 ELSE Head(s) + SumSeq(Tail(s))

\* str(n) for a non-negative integer: its decimal digits, most significant first.
RECURSIVE Str(_)
Str(n) == IF n < 10 THEN <<n>> ELSE Str(n \div 10) \o <<n % 10>>

\* Python's ordering of two strings of digits (lexicographic).
RECURSIVE StrLess(_, _)
StrLess(a, b) ==
    IF a = <<>> THEN b # <<>>
    ELSE IF b = <<>> THEN FALSE
    ELSE IF Head(a) # Head(b) THEN Head(a) < Head(b)
    ELSE StrLess(Tail(a), Tail(b))

----------------------------------------------------------------------------
(***************************************************************************)
(* The engine's data.  Datasets are sub-datasets of main.py's dummy data:  *)
(* the record with id i has the city CityOf(i).                            *)
(***************************************************************************)
IDs == 1..MaxRecords

CityOf(i) == IF i \in {3, 4} THEN "Mountain View" ELSE "London"

\* The blocking rule lists a caller puts in the settings.
RuleLists == { <<>>, <<"l.city = r.city">> }

\* Splink's blocking: the pairs l < r of the table that satisfy some rule; with
\* no rule at all every pair is compared.
RuleHolds(rule, l, r) == rule = "l.city = r.city" /\ CityOf(l) = CityOf(r)

BlockedPairs(ids, rules) ==
    { pr \in ids \X ids :
        /\ pr[1] < pr[2]
        /\ \/ Len(rules) = 0
           \/ \E i \in 1..Len(rules) : RuleHolds(rules[i], pr[1], pr[2]) }

\* Splink scores a pair by its comparison vector alone.  With main.py's comparisons
\* on the dummy data no two names agree or come within edit distance 2, so the
\* vector of a pair is its city level: 1 when the cities agree, else 0.
GammaLevels == {0, 1}

Gamma(l, r) == IF CityOf(l) = CityOf(r) THEN 1 ELSE 0

\* threshold_match_probability of the predict call in run_resolution.
PREDICT_THRESHOLD == 50

----------------------------------------------------------------------------
(***************************************************************************)
(* Splink's clustering, as the engine calls it.  The nodes are the records *)
(* the linker read when it predicted (Splink caches its concatenated input *)
(* table), the edges are the stored predictions at or above the threshold, *)
(* and a record's cluster_id is the smallest id of its connected component.*)
(***************************************************************************)
\* Mutant: the edge filter keeps the pairs at or below the threshold.
EdgesAtOrBelow(preds, t) == { e \in preds : e.match_probability <= t }

EdgesAt(preds, t) == { e \in preds : e.match_probability >= t }

Neighbours(S, edges) ==
    S \cup { e.unique_id_r : e \in { x \in edges : x.unique_id_l \in S } }
      \cup { e.unique_id_l : e \in { x \in edges : x.unique_id_r \in S } }

RECURSIVE Component(_, _)
Component(S, edges) ==
    IF Neighbours(S, edges) = S THEN S ELSE Component(Neighbours(S, edges), edges)

\* Mutant: the clustering keeps the pairs at or below the threshold as edges.
ClusterAtOrBelow(lk, preds, t) ==
    LET edges == { e \in EdgesAtOrBelow(preds, t) :
                     e.unique_id_l \in lk.nodes /\ e.unique_id_r \in lk.nodes }
    IN  { [unique_id  |-> n, cluster_id  |-> Min(Component({n}, edges))] : n \in lk.nodes }

cluster_pairwise_predictions_at_threshold(lk, preds, t) ==
    LET edges == { e \in EdgesAt(preds, t) :
                     e.unique_id_l \in lk.nodes /\ e.unique_id_r \in lk.nodes }
    IN  { [unique_id  |-> n, cluster_id  |-> Min(Component({n}, edges))] : n \in lk.nodes }

\* SELECT cluster_id, COUNT(* ) ... GROUP BY cluster_id: cluster_id -> size.
ClusterSizes(df_clusters) ==
    [ c \in { row.cluster_id : row \in df_clusters } |->
        Cardinality({ row \in df_clusters : row.cluster_id = c }) ]

----------------------------------------------------------------------------
(***************************************************************************)
(* Data frames of get_clusters_data.  A frame is a sequence of rows.  A    *)
(* cluster_id cell is a record: Splink's numeric id n is                   *)
(* [singleton |-> FALSE, digits |-> Str(n)], the string 'singleton_' + uid *)
(* is [singleton |-> TRUE, digits |-> uid], and a missing value (NaN) is   *)
(* NaN below.                                                              *)
(***************************************************************************)
NaN == [singleton |-> FALSE, digits |-> <<>>]

NumericId(n) == [singleton |-> FALSE, digits |-> Str(n)]

SingletonId(uid) == [singleton |-> TRUE, digits |-> uid]

\* The rows of a set of ids, in ascending id order (the table's row order).
RECURSIVE SeqOfSet(_)
SeqOfSet(S) == IF S = {} THEN <<>> ELSE <<Min(S)>> \o SeqOfSet(S \ {Min(S)})

RECURSIVE MapStrId(_)
MapStrId(ids) ==
    IF ids = <<>> THEN <<>>
    ELSE <<[unique_id |-> Str(Head(ids))]>> \o MapStrId(Tail(ids))

\* clusters_df after astype(str) of its unique_id column.
ClustersDf(df_clusters) ==
    { [unique_id |-> Str(row.unique_id), cluster_id |-> NumericId(row.cluster_id)] :
        row \in df_clusters }

\* The rows a left row joins to: one per right row with the same key, in key
\* order; a left row without a partner is kept once with a missing cluster_id.
RECURSIVE RowsOf(_, _)
RowsOf(left_row, partners) ==
    IF partners = {} THEN <<>>
    ELSE LET p == CHOOSE x \in partners :
                    \A y \in partners : x = y \/ ~ StrLess(y.cluster_id.digits, x.cluster_id.digits)
         IN  <<[unique_id |-> left_row.unique_id, cluster_id |-> p.cluster_id]>>
               \o RowsOf(left_row, partners \ {p})

\* Mutant: how='inner', a left row without a partner is dropped.
MergeRowInner(left_row, right) ==
    RowsOf(left_row, { x \in right : x.unique_id = left_row.unique_id })

MergeRow(left_row, right) ==
    LET partners == { x \in right : x.unique_id = left_row.unique_id }
    IN  IF partners = {}
        THEN <<[unique_id |-> left_row.unique_id, cluster_id |-> NaN]>>
        ELSE RowsOf(left_row, partners)

\* original_df.merge(clusters_df, on='unique_id', how='left')
RECURSIVE merge(_, _)
merge(left, right) ==
    IF left = <<>> THEN <<>>
    ELSE MergeRow(Head(left), right) \o merge(Tail(left), right)

\* Mutant: every record without a cluster gets the same identifier.
FillSingletonsShared(df) ==
    [ i \in 1..Len(df) |->
        IF df[i].cluster_id = NaN
        THEN [df[i] EXCEPT !.cluster_id = SingletonId(<<>>)]
        ELSE df[i] ]

\* result_df.loc[null_mask, 'cluster_id'] = 'singleton_' + unique_id
FillSingletons(df) ==
    [ i \in 1..Len(df) |->
        IF df[i].cluster_id = NaN
        THEN [df[i] EXCEPT !.cluster_id = SingletonId(df[i].unique_id)]
        ELSE df[i] ]

\* groupby('cluster_id').size() mapped back onto the rows
AddClusterSize(df) ==
    [ i \in 1..Len(df) |->
        [unique_id    |-> df[i].unique_id,
         cluster_id   |-> df[i].cluster_id,
         cluster_size |-> Cardinality({ j \in 1..Len(df) : df[j].cluster_id = df[i].cluster_id })] ]

\* Ordering of cluster_id cells in a sort: numbers (by value) before strings
\* (lexicographic).
RECURSIVE IntOf(_)
IntOf(d) == IF d = <<>> THEN 0 ELSE IntOf(SubSeq(d, 1, Len(d) - 1)) * 10 + d[Len(d)]

ClusterIdLess(a, b) ==
    IF a.singleton # b.singleton THEN b.singleton
    ELSE IF a.singleton THEN StrLess(a.digits, b.digits)
    ELSE IntOf(a.digits) < IntOf(b.digits)

\* sort_values(['cluster_size', 'cluster_id'], ascending=[False, True])
RowBefore(a, b) ==
    \/ a.cluster_size > b.cluster_size
    \/ a.cluster_size = b.cluster_size /\ ClusterIdLess(a.cluster_id, b.cluster_id)

RECURSIVE Insert(_, _)
Insert(row, sorted) ==
    IF sorted = <<>> THEN <<row>>
    ELSE IF RowBefore(row, Head(sorted)) THEN <<row>> \o sorted
    ELSE <<Head(sorted)>> \o Insert(row, Tail(sorted))

RECURSIVE sort_values(_)
sort_values(df) ==
    IF df = <<>> THEN <<>>
    ELSE Insert(df[Len(df)], sort_values(SubSeq(df, 1, Len(df) - 1)))

\* The table get_clusters_data returns for a source table, a linker and predictions.
ClustersData(tbl, lk, preds, t) ==
    LET df_clusters == cluster_pairwise_predictions_at_threshold(lk, preds, t)
        original_df == MapStrId(SeqOfSet(tbl))
        result_df   == merge(original_df, ClustersDf(df_clusters))
    IN  sort_values(AddClusterSize(FillSingletons(result_df)))

----------------------------------------------------------------------------
(***************************************************************************)
(* The engine: EntityResolutionEngine.                                     *)
(***************************************************************************)
\* thresholds=None in analyze_thresholds
DEFAULT_THRESHOLDS == <<50, 60, 70, 80, 90, 95>>

\* The threshold lists a caller passes to analyze_thresholds (None: the default).
ThresholdLists == { DEFAULT_THRESHOLDS, <<95, 30>>, <<80, 80, 100>> }

\* round(n / d) to the nearest integer, halves to the even one (Python's round).
RoundDiv(n, d) ==
    LET q == n \div d
        r == n % d
    IN  IF 2 * r > d \/ (2 * r = d /\ q % 2 = 1) THEN q + 1 ELSE q

RECURSIVE SumProb(_)
SumProb(S) ==
    IF S = {} THEN 0
    ELSE LET e == CHOOSE x \in S : TRUE IN e.match_probability + SumProb(S \ {e})

NoResult == [op |-> "none", raised |-> FALSE]

\* __init__: no table yet, self.linker = None, self.predictions = None.
EngineInit ==
    /\ table = NoTable
    /\ linker = NoLinker
    /\ predictions = NoPredictions
    /\ result = NoResult

\* ingest_data(source): CREATE OR REPLACE TABLE input_data from a CSV of records.
ingest_data(ds) ==
    /\ table' = Table(ds)
    /\ result' = [op |-> "ingest_data", raised |-> FALSE, value |-> Cardinality(ds)]
    /\ UNCHANGED <<linker, predictions>>

\* The rows predict(threshold_match_probability=0.5) keeps of the candidate pairs,
\* each scored by the model's probability for its comparison vector.
Predict(pairs, model) ==
    { [unique_id_l |-> pr[1], unique_id_r |-> pr[2],
       match_probability |-> model[Gamma(pr[1], pr[2])]] :
        pr \in { x \in pairs : model[Gamma(x[1], x[2])] >= PREDICT_THRESHOLD } }

\* run_resolution(table_name, settings): a new linker on the table, then its
\* predictions.  The linker's model (its m and u probabilities) is Splink's; it
\* may give a comparison vector any of Probs.
run_resolution(rules) ==
    /\ ~ table.none
    /\ \E model \in [GammaLevels -> Probs] :
         LET df_predict == Predict(BlockedPairs(table.ids, rules), model)
         IN  /\ linker' = [none |-> FALSE, nodes |-> table.ids, blocking_rules |-> rules]
             /\ predictions' = Predictions(df_predict)
             /\ result' = [op |-> "run_resolution", raised |-> FALSE, value |-> df_predict]
    /\ UNCHANGED table

\* run_resolution before any table exists: Linker(...) raises, nothing is assigned.
run_resolution_no_table ==
    /\ table.none
    /\ result' = [op |-> "run_resolution", raised |-> TRUE]
    /\ UNCHANGED <<table, linker, predictions>>

\* Mutant: the comparison of the match filter is reversed.
MatchesBelowThreshold(preds, threshold) == { e \in preds : e.match_probability <= threshold }

\* df[df['match_probability'] >= threshold]
MatchesAtThreshold(preds, threshold) == { e \in preds : e.match_probability >= threshold }

\* One entry of analyze_thresholds' list.
ThresholdEntry(lk, preds, threshold) ==
    LET matches_at_threshold == MatchesAtThreshold(preds, threshold)
        match_count   == Cardinality(matches_at_threshold)
        cluster_sizes == ClusterSizes(cluster_pairwise_predictions_at_threshold(lk, preds, threshold))
        total_clusters == Cardinality(DOMAIN cluster_sizes)
        sizes_sum     == Cardinality(lk.nodes)
    IN  [threshold        |-> threshold,
         match_count      |-> match_count,
         cluster_count    |-> total_clusters,
         singleton_count  |-> Cardinality({ c \in DOMAIN cluster_sizes : cluster_sizes[c] = 1 }),
         avg_cluster_size_x100 |->
             IF total_clusters > 0 THEN RoundDiv(100 * sizes_sum, total_clusters) ELSE 0,
         max_cluster_size |->
             IF total_clusters > 0
             THEN Max({ cluster_sizes[c] : c \in DOMAIN cluster_sizes }) ELSE 0,
         avg_match_probability_x1000 |->
             IF match_count > 0
             THEN RoundDiv(10 * SumProb(matches_at_threshold), match_count) ELSE 0]

\* analyze_thresholds(thresholds)
analyze_thresholds(thresholds) ==
    /\ IF predictions.none
       THEN result' = [op |-> "analyze_thresholds", raised |-> FALSE,
                       error |-> "No predictions available. Run matching first."]
       ELSE result' = [op |-> "analyze_thresholds", raised |-> FALSE, error |-> "",
                       thresholds |->
                           [ i \in 1..Len(thresholds) |->
                               ThresholdEntry(linker, predictions.rows, thresholds[i]) ],
                       total_predictions |-> Cardinality(predictions.rows)]
    /\ UNCHANGED <<table, linker, predictions>>

\* ORDER BY match_probability DESC of a set of prediction rows (ties in id order).
RECURSIVE OrderByProbDesc(_)
OrderByProbDesc(S) ==
    IF S = {} THEN <<>>
    ELSE LET e == CHOOSE x \in S : \A y \in S :
                    \/ x.match_probability > y.match_probability
                    \/ /\ x.match_probability = y.match_probability
                       /\ \/ x = y
                          \/ x.unique_id_l < y.unique_id_l
                          \/ (x.unique_id_l = y.unique_id_l /\ x.unique_id_r < y.unique_id_r)
         IN  <<[left_id |-> e.unique_id_l, right_id |-> e.unique_id_r,
                match_probability |-> e.match_probability]>> \o OrderByProbDesc(S \ {e})

\* The rows of get_clusters' query.
ClustersQuery(preds, threshold) ==
    OrderByProbDesc({ e \in preds : e.match_probability >= threshold })

\* get_clusters(threshold)
get_clusters(threshold) ==
    /\ result' = [op |-> "get_clusters", raised |-> FALSE, threshold |-> threshold,
                  value |-> IF predictions.none THEN <<>>
                            ELSE ClustersQuery(predictions.rows, threshold)]
    /\ UNCHANGED <<table, linker, predictions>>

\* get_clusters_data(table_name, threshold, id_column)
get_clusters_data(threshold) ==
    /\ IF predictions.none \/ table.none
       THEN result' = [op |-> "get_clusters_data", raised |-> TRUE, threshold |-> threshold]
       ELSE result' = [op |-> "get_clusters_data", raised |-> FALSE, threshold |-> threshold,
                       value |-> ClustersData(table.ids, linker, predictions.rows, threshold)]
    /\ UNCHANGED <<table, linker, predictions>>

\* The matcher does not run in the engine's specification.
MatcherIdle ==
    /\ browser_table = <<>>
    /\ matcher = NoMatcher
    /\ matches = NoResult

Init == EngineInit /\ MatcherIdle /\ ServiceIdle /\ ResolutionIdle /\ TranspilerIdle /\ ProcessesIdle
    /\ SettingsIdle /\ LogsIdle

\* What the engine's specification leaves unchanged.
engine_frame == <<matcher_vars, service_vars, resolution_vars, transpiler_vars, process_vars, settings_vars, log_vars>>

Next ==
    \/ \E ds \in SUBSET IDs \ {{}} : ingest_data(ds) /\ UNCHANGED engine_frame
    \/ \E rules \in RuleLists : run_resolution(rules) /\ UNCHANGED engine_frame
    \/ run_resolution_no_table /\ UNCHANGED engine_frame
    \/ \E ts \in ThresholdLists : analyze_thresholds(ts) /\ UNCHANGED engine_frame
    \/ \E t \in Thresholds : get_clusters(t) /\ UNCHANGED engine_frame
    \/ \E t \in Thresholds : get_clusters_data(t) /\ UNCHANGED engine_frame

Spec == Init /\ [][Next]_vars

----------------------------------------------------------------------------
(***************************************************************************)
(* Floating point of the browser matcher, in fixed point.  A weight is an  *)
(* integer number of 1/WUNIT bits; a probability or another number of      *)
(* [0, 2) is an integer number of 1/PUNIT.  m and u probabilities are in   *)
(* percent.                                                                *)
(***************************************************************************)
WUNIT == 1024

PUNIT == 16384

\* The bits of the fraction of log2(x / PUNIT), 1 <= x / PUNIT < 2, by repeated
\* squaring: acc holds the bits found so far, n bits are still to find.
RECURSIVE Log2Frac(_, _, _)
Log2Frac(x, n, acc) ==
    IF n = 0 THEN acc
    ELSE LET y == (x * x) \div PUNIT
         IN  IF y >= 2 * PUNIT
             THEN Log2Frac(y \div 2, n - 1, 2 * acc + 1)
             ELSE Log2Frac(y, n - 1, 2 * acc)

\* math.log2(m / u) for m, u > 0, in weight units: k counts the halvings or
\* doublings that bring m / u into [1, 2).
RECURSIVE Log2Ratio(_, _, _)
Log2Ratio(m, u, k) ==
    IF m < u THEN Log2Ratio(2 * m, u, k - 1)
    ELSE IF m >= 2 * u THEN Log2Ratio(m, 2 * u, k + 1)
    ELSE k * WUNIT + Log2Frac((m * PUNIT) \div u, 10, 0)

log2(m, u) == Log2Ratio(m, u, 0)

\* 2^(-1/2), 2^(-1/4), ..., 2^(-1/1024) in units of 1/PUNIT.
ROOTS == <<11585, 13777, 15024, 15689, 16033, 16208, 16296, 16340, 16362, 16373>>

\* 2^(-f / WUNIT) for 0 <= f < WUNIT: the product of the roots of f's binary digits.
RECURSIVE Pow2NegFrac(_, _, _)
Pow2NegFrac(f, b, acc) ==
    IF b > 10 THEN acc
    ELSE IF (f \div (2 ^ (10 - b))) % 2 = 1
         THEN Pow2NegFrac(f, b + 1, (acc * ROOTS[b]) \div PUNIT)
         ELSE Pow2NegFrac(f, b + 1, acc)

\* 2^(-y / WUNIT) for y >= 0, in units of 1/PUNIT.
Pow2Neg(y) ==
    IF y \div WUNIT > 14 THEN 0
    ELSE Pow2NegFrac(y % WUNIT, 1, PUNIT) \div (2 ^ (y \div WUNIT))

\* log2(e) in weight units: exp(-x) = 2^(-x * log2(e)).
LOG2_E == 1477

\* exp(-x / WUNIT) for x >= 0, in units of 1/PUNIT.
ExpNeg(x) == Pow2Neg((x * LOG2_E) \div WUNIT)

\* 1 / (1 + d) where d is decay(|w|) for w >= 0 and 1 / decay(|w|) for w < 0.
Logistic(w, d) ==
    IF w >= 0 THEN (PUNIT * PUNIT) \div (PUNIT + d)
    ELSE (PUNIT * d) \div (PUNIT + d)

Abs(x) == IF x < 0 THEN -x ELSE x

\* probability_sql: 1.0 / (1.0 + exp(-(total_weight)))
probability_sql(w) == Logistic(w, ExpNeg(Abs(w)))

----------------------------------------------------------------------------
(***************************************************************************)
(* The browser matcher: its inputs.                                        *)
(***************************************************************************)
\* Largest id of a record of the browser table.
MaxRows == 4

\* SQL NULL, and the three truth values of an SQL condition.
SQLNULL == "NULL"

\* The records a browser table is made of, by id.  Names and cities are those
\* of the demo data; record 3 has no name.
BrowserRecord(i) ==
    CASE i = 1 -> [id |-> 1, name |-> "JMAN Group", city |-> "London"]
      [] i = 2 -> [id |-> 2, name |-> "JMAN Group", city |-> "London"]
      [] i = 3 -> [id |-> 3, name |-> SQLNULL, city |-> "London"]
      [] i = 4 -> [id |-> 4, name |-> "JMAN Group Ltd", city |-> "Mountain View"]
      [] OTHER -> [id |-> i, name |-> "Google", city |-> "Mountain View"]

\* The tables the page may have loaded: ids are unique.
BrowserTables == { [i \in ds |-> BrowserRecord(i)] : ds \in SUBSET (1..MaxRows) \ {{}} }

\* blocking_rules_to_generate_predictions of the settings.
BlockingRuleLists ==
    { <<>>,
      <<"l.name = r.name">>,
      <<"l.city = r.city">>,
      <<"l.name = r.name", "l.city = r.city">>,
      <<"block_on('city')">> }

\* One comparison level with an exact-match condition on col.
ExactLevel(col, m, u) ==
    [sql_condition |-> IF col = "name" THEN "name_l = name_r" ELSE "city_l = city_r",
     m_probability |-> m, u_probability |-> u]

NullLevel == [sql_condition |-> "name_l IS NULL OR name_r IS NULL", is_null_level |-> TRUE]

Comparison(col, levels) == [output_column_name |-> col, comparison_levels |-> levels]

\* comparisons of the settings.  Output column names are distinct in a list.
ComparisonLists ==
    { <<>>,
      << [output_column_name |-> "name"] >>,
      << Comparison("name", << ExactLevel("name", 90, 10) >>) >>,
      << Comparison("name", << ExactLevel("name", 20, 10) >>) >>,
      << Comparison("name", << ExactLevel("name", 50, 50) >>) >>,
      << Comparison("name", << ExactLevel("name", 90, 0) >>) >>,
      << Comparison("name", << ExactLevel("name", 0, 50) >>) >>,
      << Comparison("name", << NullLevel, ExactLevel("name", 90, 10) >>) >>,
      << Comparison("name", << NullLevel, ExactLevel("name", 90, 10),
                               [sql_condition |-> "ELSE", m_probability |-> 10,
                                u_probability |-> 70] >>) >>,
      << Comparison("name", << [m_probability |-> 90, u_probability |-> 10] >>) >>,
      << Comparison("name", << ExactLevel("name", 90, 10) >>),
         Comparison("city", << ExactLevel("city", 80, 20) >>) >> }

SettingsSet ==
    { [blocking_rules_to_generate_predictions |-> b, comparisons |-> c] :
        b \in BlockingRuleLists, c \in ComparisonLists }

\* threshold (percent) and max_pairs of a call.
WorkerThresholds == {50, 70}
MaxPairsSet == {1, 1000}

----------------------------------------------------------------------------
(***************************************************************************)
(* The browser matcher: SplinkCompatibleMatcher.                           *)
(*                                                                         *)
(* predict() builds one SQL query and hands it to DuckDB-WASM.  The query  *)
(* is modelled by its relational meaning, with SQL's three-valued logic;   *)
(* l and r denote the two records of a pair in both of its CTEs.  A CASE   *)
(* expression is the record of its alias and its WHEN branches.            *)
(***************************************************************************)
\* dict.get(key, default)
get(d, key, default) == IF key \in DOMAIN d THEN d[key] ELSE default

SplinkCompatibleMatcher(settings) ==
    [none |-> FALSE,
     blocking_rules |-> get(settings, "blocking_rules_to_generate_predictions", <<>>),
     comparisons |-> get(settings, "comparisons", <<>>)]

\* a = b in SQL
Eq3(a, b) ==
    IF a = SQLNULL \/ b = SQLNULL THEN "NULL"
    ELSE IF a = b THEN "TRUE" ELSE "FALSE"

\* c1 OR c2 OR ... in SQL, of the set of the disjuncts' values
Or3(values) ==
    IF "TRUE" \in values THEN "TRUE"
    ELSE IF "NULL" \in values THEN "NULL" ELSE "FALSE"

\* substr(CAST(v AS VARCHAR), 1, 1)
substr1(v) ==
    CASE v = SQLNULL -> SQLNULL
      [] v \in {"JMAN Group", "JMAN Group Ltd"} -> "J"
      [] OTHER -> "G"

\* block_on('col') becomes l.col = r.col; any other rule is SQL already.
parse_blocking_rule(rule) ==
    IF rule = "block_on('city')" THEN "l.city = r.city" ELSE rule

DEFAULT_BLOCKING == "substr(CAST(l.name AS VARCHAR), 1, 1) = substr(CAST(r.name AS VARCHAR), 1, 1)"

\* The disjuncts of the join condition.
blocking_sql(m) ==
    IF m.blocking_rules # <<>>
    THEN [i \in 1..Len(m.blocking_rules) |-> parse_blocking_rule(m.blocking_rules[i])]
    ELSE << DEFAULT_BLOCKING >>

\* The value of one disjunct on the records l and r.
BlockingValue(sql, l, r) ==
    CASE sql = "l.name = r.name" -> Eq3(l.name, r.name)
      [] sql = "l.city = r.city" -> Eq3(l.city, r.city)
      [] sql = DEFAULT_BLOCKING -> Eq3(substr1(l.name), substr1(r.name))

\* ON (c1) OR (c2) ...: the join keeps the pairs whose condition is TRUE.
JoinOn(conds, l, r) ==
    Or3({ BlockingValue(conds[i], l, r) : i \in 1..Len(conds) }) = "TRUE"

\* Mutant: the WHERE clause with <> for <.
IdDiffers(a, b) == a # b

\* WHERE l.id < r.id
IdLess(a, b) == a < b

PairRow(l, r) == [id_l |-> l.id, id_r |-> r.id, record_l |-> l, record_r |-> r]

TableRows(tbl) == { tbl[i] : i \in DOMAIN tbl }

\* The rows of the self-join before LIMIT; DISTINCT makes them a set.
JoinedPairs(m, tbl) ==
    { PairRow(pr[1], pr[2]) :
        pr \in { q \in TableRows(tbl) \X TableRows(tbl) :
                   /\ JoinOn(blocking_sql(m), q[1], q[2])
                   /\ IdLess(q[1].id, q[2].id) } }

\* LIMIT 10000 of candidate_pairs, in proportion to the model's tables.
CANDIDATE_LIMIT == 2

\* LIMIT n without ORDER BY: any n of the rows.
Limit(S, n) ==
    IF Cardinality(S) <= n THEN {S} ELSE { T \in SUBSET S : Cardinality(T) = n }

\* The Splink conditions the model's settings use, parsed.
ParseCondition(sql_cond) ==
    CASE sql_cond = "name_l = name_r" -> [kind |-> "eq", col |-> "name"]
      [] sql_cond = "city_l = city_r" -> [kind |-> "eq", col |-> "city"]
      [] sql_cond = "name_l IS NULL OR name_r IS NULL" -> [kind |-> "is_null", col |-> "name"]
      [] OTHER -> [kind |-> "invalid", col |-> ""]

\* sql_cond with {col}_l and {col}_r replaced by l.{col} and r.{col}.  What is
\* left is a valid condition of the query if it is a condition on col: "ELSE"
\* and the empty string are no SQL expressions, and a column with another
\* name's _l or _r suffix does not exist.
duckdb_cond(sql_cond, col) ==
    LET c == ParseCondition(sql_cond)
    IN  [kind |-> c.kind, col |-> c.col, valid |-> c.kind # "invalid" /\ c.col = col]

\* The value of a valid condition on the records l and r.
CondValue(c, l, r) ==
    CASE c.kind = "eq" -> Eq3(l[c.col], r[c.col])
      [] c.kind = "is_null" ->
           IF l[c.col] = SQLNULL \/ r[c.col] = SQLNULL THEN "TRUE" ELSE "FALSE"

m_probability(level, idx) == get(level, "m_probability", IF idx = 0 THEN 90 ELSE 10)
u_probability(level) == get(level, "u_probability", 1)

\* math.log2(m / u) raises ValueError (math domain error) when m / u is 0.
LevelRaises(level, idx) ==
    u_probability(level) > 0 /\ m_probability(level, idx) <= 0

\* weight of a level, when computing it does not raise
LevelWeight(level, idx) ==
    IF u_probability(level) > 0
    THEN log2(m_probability(level, idx), u_probability(level))
    ELSE 10 * WUNIT

\* 2.0 and -2.0 of the default CASE; -2.0 of the appended ELSE
DEFAULT_MATCH_WEIGHT == 2 * WUNIT
ELSE_WEIGHT == -2 * WUNIT

comparison_levels(comparison) == get(comparison, "comparison_levels", <<>>)

GenerateRaises(comparison) ==
    \E i \in 1..Len(comparison_levels(comparison)) :
        LevelRaises(comparison_levels(comparison)[i], i - 1)

\* _generate_comparison_sql: the CASE expression "... END as {col}_weight".
\* Without levels it is CASE WHEN l.col = r.col THEN 2.0 ELSE -2.0 END.
generate_comparison_sql(comparison) ==
    LET col    == comparison.output_column_name
        levels == comparison_levels(comparison)
    IN  IF levels = <<>>
        THEN [alias |-> col,
              whens |-> << [cond |-> [kind |-> "eq", col |-> col, valid |-> TRUE],
                            weight |-> DEFAULT_MATCH_WEIGHT] >>]
        ELSE [alias |-> col,
              whens |-> [i \in 1..Len(levels) |->
                           [cond |-> duckdb_cond(get(levels[i], "sql_condition", ""), col),
                            weight |-> LevelWeight(levels[i], i - 1)]]]

CaseValid(case) == \A i \in 1..Len(case.whens) : case.whens[i].cond.valid

\* CASE WHEN c1 THEN w1 WHEN c2 THEN w2 ... ELSE -2.0 END: the first WHEN that
\* holds gives the value.
CaseValue(case, l, r) ==
    LET holds == { i \in 1..Len(case.whens) : CondValue(case.whens[i].cond, l, r) = "TRUE" }
    IN  IF holds = {} THEN ELSE_WEIGHT ELSE case.whens[Min(holds)].weight

\* Step 2 of predict: the CASE expressions, and the names of their columns
\* (the model leaves the suffix _weight out).
comparison_sqls(m) ==
    IF m.comparisons = <<>>
    THEN << generate_comparison_sql([output_column_name |-> "name"]) >>
    ELSE [i \in 1..Len(m.comparisons) |-> generate_comparison_sql(m.comparisons[i])]

\* Mutant: only the first comparison's column is added up.
weight_columns_first(m) ==
    IF m.comparisons = <<>> THEN << "name" >> ELSE << m.comparisons[1].output_column_name >>

weight_columns(m) ==
    IF m.comparisons = <<>>
    THEN << "name" >>
    ELSE [i \in 1..Len(m.comparisons) |-> m.comparisons[i].output_column_name]

\* The weight columns of the pair row c, by name.
WeightColumns(sqls, c) ==
    [a \in { sqls[i].alias : i \in 1..Len(sqls) } |->
        CaseValue(sqls[CHOOSE i \in 1..Len(sqls) : sqls[i].alias = a], c.record_l, c.record_r)]

\* total_weight_sql: col1_weight + col2_weight + ...
total_weight_sql(columns, names) ==
    SumSeq([i \in 1..Len(names) |-> columns[names[i]]])

\* One row of scored_pairs.
ScoredRow(m, c) ==
    LET columns == WeightColumns(comparison_sqls(m), c)
        total   == total_weight_sql(columns, weight_columns(m))
    IN  [id_l |-> c.id_l, id_r |-> c.id_r, record_l |-> c.record_l, record_r |-> c.record_r,
         weights |-> columns, match_weight |-> total,
         match_probability |-> probability_sql(total)]

\* WHERE match_probability >= threshold (threshold in percent)
AtThreshold(row, threshold) == row.match_probability * 100 >= threshold * PUNIT

\* ORDER BY match_probability DESC: every order of the rows that is descending.
RECURSIVE OrderByDesc(_)
OrderByDesc(F) ==
    IF F = {} THEN { <<>> }
    ELSE UNION { { <<x>> \o rest : rest \in OrderByDesc(F \ {x}) } :
                   x \in { y \in F : \A z \in F : y.match_probability >= z.match_probability } }

\* What run_entity_resolution returns.  candidate_pairs and scored_pairs are
\* the two CTEs of the query that produced matches.
Success(threshold, candidates, scored, rows) ==
    [op |-> "run_entity_resolution", raised |-> FALSE, status |-> "success", error |-> "",
     threshold |-> threshold, candidate_pairs |-> candidates, scored_pairs |-> scored,
     matches |-> rows, total_pairs |-> Len(rows)]

Error(threshold, e) ==
    [op |-> "run_entity_resolution", raised |-> FALSE, status |-> "error", error |-> e,
     threshold |-> threshold, candidate_pairs |-> {}, scored_pairs |-> {},
     matches |-> <<>>, total_pairs |-> 0]

\* The results the query may give for one choice of candidate_pairs.
QueryResults(m, candidates, threshold, max_pairs) ==
    LET scored == { ScoredRow(m, c) : c \in candidates }
        kept   == { row \in scored : AtThreshold(row, threshold) }
    IN  { Success(threshold, candidates, scored, SubSeq(rows, 1, Min({max_pairs, Len(rows)}))) :
            rows \in OrderByDesc(kept) }

\* predict(), and the try/except of run_entity_resolution around it: the set
\* of the results the call may return.
predict(m, tbl, threshold, max_pairs) ==
    IF \E i \in 1..Len(m.comparisons) : GenerateRaises(m.comparisons[i])
    THEN { Error(threshold, "math domain error") }
    ELSE IF \E i \in 1..Len(comparison_sqls(m)) : ~CaseValid(comparison_sqls(m)[i])
    THEN { Error(threshold, "Parser Error") }
    ELSE UNION { QueryResults(m, candidates, threshold, max_pairs) :
                   candidates \in Limit(JoinedPairs(m, tbl), CANDIDATE_LIMIT) }

\* run_entity_resolution(table, settings_json, threshold, max_pairs), for the
\* matcher it has constructed from the settings.
run_entity_resolution(threshold, max_pairs) ==
    /\ matches' \in predict(matcher, browser_table, threshold, max_pairs)
    /\ UNCHANGED <<browser_table, matcher>>

\* The legacy wrapper: threshold 0.5 and the default max_pairs.
run_splink_match == run_entity_resolution(50, 1000)

\* The page has loaded a table and the matcher is constructed from settings.
\* What the matcher's specification leaves unchanged.
matcher_frame == <<engine_vars, service_vars, resolution_vars, transpiler_vars, process_vars, settings_vars, log_vars>>

WorkerInit ==
    /\ EngineInit
    /\ ServiceIdle /\ ResolutionIdle /\ TranspilerIdle /\ ProcessesIdle
    /\ SettingsIdle /\ LogsIdle
    /\ browser_table \in BrowserTables
    /\ matcher \in { SplinkCompatibleMatcher(settings) : settings \in SettingsSet }
    /\ matches = NoResult

WorkerNext ==
    \/ \E threshold \in WorkerThresholds, max_pairs \in MaxPairsSet :
         run_entity_resolution(threshold, max_pairs) /\ UNCHANGED matcher_frame
    \/ run_splink_match /\ UNCHANGED matcher_frame

WorkerSpec == WorkerInit /\ [][WorkerNext]_vars

----------------------------------------------------------------------------
(***************************************************************************)
(* The service: SplinkService.process_entity_resolution as the API calls   *)
(* it.  The handlers are coroutines without an await once the request is   *)
(* read, so one process runs them one at a time.  The engine of the        *)
(* service is the variables table, linker and predictions; linker_run and  *)
(* predictions_run record the run (counted from 1) they come from, and the *)
(* response of a run records the rules of its request.                     *)
(***************************************************************************)
\* Largest number of resolution runs in a behaviour.
MaxRuns == 2

\* The columns of the table an uploaded CSV makes.
ExistingColumns == {"unique_id", "name", "city"}

\* A rule on a field with a space, as RuleTranspiler.compile_part writes it.
QUOTED_RULE == "l.\"post code\" = r.\"post code\""

\* blocking_rules_to_generate_predictions of a request.
ServiceRuleLists ==
    { <<>>,
      <<"l.city = r.city">>,
      <<"l.postcode = r.postcode">>,
      <<"l.city = r.city", "l.postcode = r.postcode">>,
      << QUOTED_RULE >>,
      <<"l.city = r.city", QUOTED_RULE>> }

\* The columns the SQL of a rule refers to.
RuleColumns(r) ==
    CASE r = "l.city = r.city" -> {"city"}
      [] r = "l.postcode = r.postcode" -> {"postcode"}
      [] r = QUOTED_RULE -> {"post code"}

\* re.findall(r"[lr]\.([a-zA-Z_][a-zA-Z0-9_]*)", rule): a name must follow the
\* dot at once, so the pattern finds nothing in a rule with quoted names.
findall(r) ==
    CASE r = "l.city = r.city" -> {"city"}
      [] r = "l.postcode = r.postcode" -> {"postcode"}
      [] r = QUOTED_RULE -> {}

rule_is_valid(r, existing_columns) == findall(r) \subseteq existing_columns

\* [r for r in rules if rule_is_valid(r)]
FilterRules(rules, existing_columns) ==
    SelectSeq(rules, LAMBDA r : rule_is_valid(r, existing_columns))

\* The datasets a request uploads: the first n records of the dummy data.
ServiceData == { 1..n : n \in 1..MaxRecords }

\* Thresholds (percent) of the requests; 150 is outside [0, 1].
ServiceThresholds == {30, 90, 150}

\* threshold: float = Field(default=0.5, ge=0.0, le=1.0)
ThresholdValid(threshold) == 0 <= threshold /\ threshold <= 100

\* An engine: the fields of EntityResolutionEngine and the runs they come from.
FreshEngine ==
    [table |-> NoTable, linker |-> NoLinker, predictions |-> NoPredictions,
     linker_run |-> 0, predictions_run |-> 0]

CurrentEngine ==
    [table |-> table, linker |-> linker, predictions |-> predictions,
     linker_run |-> service.linker_run, predictions_run |-> service.predictions_run]

\* Mutant: the run works on the engine the service already has.
ReusedEngine(current) == current

\* self.engine = EntityResolutionEngine()
NewEngine(current) == FreshEngine

ErrorResponse(threshold) ==
    [op |-> "resolve", http |-> 200, status |-> "error", threshold |-> threshold,
     matches |-> {}, total_pairs |-> 0, total_clusters |-> 0]

SuccessResponse(lk, df, threshold) ==
    LET matches_df == MatchesAtThreshold(df, threshold)
        cluster_lookup == cluster_pairwise_predictions_at_threshold(lk, df, threshold)
    IN  [op |-> "resolve", http |-> 200, status |-> "success", threshold |-> threshold,
         matches |-> matches_df, total_pairs |-> Cardinality(matches_df),
         total_clusters |-> Cardinality(DOMAIN ClusterSizes(cluster_lookup))]

\* The body of process_entity_resolution on the engine e, for run number n: the
\* engine it leaves and the dictionary it returns.  A rule that is kept but
\* names a column the table lacks makes Splink's SQL fail; the linker is then
\* assigned or not, depending on where Splink first reads the rule.
RunOutcomes(e, n, data, rules, threshold, model) ==
    LET ingested == [e EXCEPT !.table = Table(data)]
        kept     == FilterRules(rules, ExistingColumns)
        lk       == [none |-> FALSE, nodes |-> data, blocking_rules |-> kept]
        df       == Predict(BlockedPairs(data, kept), model)
    IN  IF \E i \in 1..Len(kept) : ~(RuleColumns(kept[i]) \subseteq ExistingColumns)
        THEN { [engine |-> ingested, response |-> ErrorResponse(threshold)],
               [engine |-> [ingested EXCEPT !.linker = lk, !.linker_run = n],
                response |-> ErrorResponse(threshold)] }
        ELSE { [engine |-> [ingested EXCEPT !.linker = lk, !.linker_run = n,
                                            !.predictions = Predictions(df),
                                            !.predictions_run = n],
                response |-> SuccessResponse(lk, df, threshold)] }

process_entity_resolution(data, rules, threshold) ==
    /\ service.started < MaxRuns
    /\ \E model \in [GammaLevels -> Probs] :
         \E out \in RunOutcomes(NewEngine(CurrentEngine), service.started + 1,
                                data, rules, threshold, model) :
            /\ table' = out.engine.table
            /\ linker' = out.engine.linker
            /\ predictions' = out.engine.predictions
            /\ service' = [engine_none |-> FALSE, started |-> service.started + 1,
                           linker_run |-> out.engine.linker_run,
                           predictions_run |-> out.engine.predictions_run,
                           response |-> [rules |-> rules] @@ out.response]
    /\ UNCHANGED result

\* POST /api/resolve: the request model rejects a threshold outside [0, 1]
\* with 422 before the handler runs.
resolve_entities(data, rules, threshold) ==
    IF ThresholdValid(threshold)
    THEN process_entity_resolution(data, rules, threshold)
    ELSE /\ service' = [service EXCEPT !.response =
                          [op |-> "resolve", http |-> 422, status |-> "rejected",
                           threshold |-> threshold, matches |-> {}, total_pairs |-> 0,
                           total_clusters |-> 0]]
         /\ UNCHANGED engine_vars

\* POST /api/resolve/file: threshold is a plain form field.
resolve_entities_from_file(data, rules, threshold) ==
    process_entity_resolution(data, rules, threshold)

\* GET /api/clusters: get_clusters_data of the service's engine; 400 when there
\* is no engine or it has no predictions.  run is the run the data come from.
api_get_clusters(threshold) ==
    /\ IF service.engine_none \/ predictions.none
       THEN service' = [service EXCEPT !.response =
                          [op |-> "clusters", http |-> 400, threshold |-> threshold]]
       ELSE service' = [service EXCEPT !.response =
                          [op |-> "clusters", http |-> 200, threshold |-> threshold,
                           run |-> service.predictions_run,
                           value |-> ClustersData(table.ids, linker, predictions.rows,
                                                  threshold)]]
    /\ UNCHANGED engine_vars

\* What the service's specification leaves unchanged.
service_frame == <<matcher_vars, resolution_vars, transpiler_vars, process_vars, settings_vars, log_vars>>

ServiceInit ==
    /\ EngineInit
    /\ MatcherIdle /\ ServiceIdle /\ ResolutionIdle /\ TranspilerIdle /\ ProcessesIdle
    /\ SettingsIdle /\ LogsIdle

ServiceNext ==
    \/ \E data \in ServiceData, rules \in ServiceRuleLists, threshold \in ServiceThresholds :
         resolve_entities(data, rules, threshold) /\ UNCHANGED service_frame
    \/ \E data \in ServiceData, rules \in ServiceRuleLists, threshold \in ServiceThresholds :
         resolve_entities_from_file(data, rules, threshold) /\ UNCHANGED service_frame
    \/ \E threshold \in ServiceThresholds :
         api_get_clusters(threshold) /\ UNCHANGED service_frame

ServiceSpec == ServiceInit /\ [][ServiceNext]_vars

-----------------------------------------------------------------------------
(***************************************************************************)
(* RuleTranspiler (src/backend/engine.py): a frontend rule is a list of    *)
(* parts, each a dictionary with the keys field, method and parameters;    *)
(* compile_rule turns it into one SQL condition, or None.                  *)
(***************************************************************************)
MaxParts == 2

\* part.get("field"): a column name, a column name with a space, or no field.
Fields == { "name", "post code", NULL }

\* part.get("method"): the five methods of compile_part, a method it does
\* not know, and no method.
KnownMethods == { "exact", "fuzzy_levenshtein", "jaro_winkler",
                  "fuzzy_metaphone", "first_n_chars" }
Methods == KnownMethods \cup { "regex", NULL }

\* part.get("parameters", {}): empty, or with a threshold and an n.
Parameters == { [threshold |-> NULL, n |-> NULL], [threshold |-> "3", n |-> "2"] }

Parts == [field : Fields, method : Methods, parameters : Parameters]

Rules == UNION { [1..k -> Parts] : k \in 0..MaxParts }

\* " " in field
HasSpace(field) == field = "post code"

\* f'l."{field}"' if " " in field else f"l.{field}"
side_field(side, field) ==
    IF HasSpace(field) THEN side \o ".\"" \o field \o "\"" ELSE side \o "." \o field

\* params.get(key, default)
params_get(params, key, default) == IF params[key] = NULL THEN default ELSE params[key]

\* Every method other than the five known ones compiles as exact does.
compile_part(part) ==
    LET l_field == side_field("l", part.field)
        r_field == side_field("r", part.field)
    IN IF part.field = NULL THEN NULL
       ELSE CASE part.method = "exact" -> l_field \o " = " \o r_field
              [] part.method = "fuzzy_levenshtein" ->
                    "levenshtein(" \o l_field \o ", " \o r_field \o ") <= "
                        \o params_get(part.parameters, "threshold", "2")
              [] part.method = "jaro_winkler" ->
                    "jaro_winkler_similarity(" \o l_field \o ", " \o r_field \o ") > "
                        \o params_get(part.parameters, "threshold", "0.9")
              [] part.method = "fuzzy_metaphone" ->
                    "soundex(" \o l_field \o ") = soundex(" \o r_field \o ")"
              [] part.method = "first_n_chars" ->
                    "SUBSTRING(" \o l_field \o ", 1, "
                        \o params_get(part.parameters, "n", "1") \o ") = SUBSTRING("
                        \o r_field \o ", 1, " \o params_get(part.parameters, "n", "1") \o ")"
              [] OTHER -> l_field \o " = " \o r_field

\* " AND ".join(conditions)
RECURSIVE join(_, _)
join(sep, strs) ==
    IF Len(strs) = 1 THEN strs[1] ELSE strs[1] \o sep \o join(sep, Tail(strs))

\* compile_rule: the conditions of the parts, None and "" left out, joined
\* with AND; None when nothing is left.
Conditions(parts) ==
    SelectSeq([i \in 1..Len(parts) |-> compile_part(parts[i])],
              LAMBDA c : c # NULL /\ c # "")

compile_rule_of(parts) ==
    IF Conditions(parts) = <<>> THEN NULL ELSE join(" AND ", Conditions(parts))

\* The caller hands over a rule; compile_rule answers.
compile_rule ==
    /\ transpiled.pc = "rule"
    /\ transpiled' = [pc |-> "compiled", parts |-> transpiled.parts,
                      conditions |-> Conditions(transpiled.parts),
                      sql |-> compile_rule_of(transpiled.parts)]
    /\ UNCHANGED <<engine_vars, matcher_vars, service_vars, resolution_vars, process_vars, settings_vars, log_vars>>

TranspilerInit ==
    /\ EngineInit /\ MatcherIdle /\ ServiceIdle /\ ResolutionIdle /\ ProcessesIdle
    /\ SettingsIdle /\ LogsIdle
    /\ transpiled \in { [pc |-> "rule", parts |-> parts, conditions |-> <<>>, sql |-> NULL]
                        : parts \in Rules }

TranspilerNext == compile_rule

TranspilerSpec == TranspilerInit /\ [][TranspilerNext]_vars

-----------------------------------------------------------------------------
(***************************************************************************)
(* run_resolution's training step (src/backend/engine.py, lines 160-193),  *)
(* on tables of up to MaxCount rows.  The record resolution holds the row  *)
(* count of the table and what the last call did: whether                  *)
(* estimate_u_using_random_sampling was called and how it ended, the u     *)
(* probabilities the linker then has, and whether predict was called.      *)
(***************************************************************************)
\* Largest table, in rows.
MaxCount == 52

\* if count > 50
MIN_ROWS == 50

Counts == 0..MaxCount

\* Mutant: the estimation also runs on a table of exactly the minimum size.
EstimatesAtMinimum(count) == count >= MIN_ROWS

\* if count > 50: estimate; else: skip.
Estimates(count) == count > MIN_ROWS

\* What the try block can do on a table of count rows: skip the estimation,
\* or call it, and then it returns or raises.  An estimation that raises has
\* not written its u probabilities to the linker.
TryOutcomes(count) ==
    IF Estimates(count)
    THEN { [estimation |-> "trained", raised |-> FALSE, u |-> "estimated"],
           [estimation |-> "failed",  raised |-> TRUE,  u |-> "default"] }
    ELSE { [estimation |-> "skipped", raised |-> FALSE, u |-> "default"] }

\* except Exception: the message is printed and the run goes on.
ExceptHandled(outcome) == [outcome EXCEPT !.raised = FALSE]

\* run_resolution on a table of resolution.count rows: Linker(...), which
\* raises when the table does not exist; then try, except, and predict.  An
\* exception that is still raised after the except clause would end the call.
run_resolution_training ==
    /\ resolution.pc = "called"
    /\ IF ~ resolution.table_exists
       THEN resolution' = [resolution EXCEPT !.pc = "raised"]
       ELSE \E outcome \in TryOutcomes(resolution.count) :
              LET after == ExceptHandled(outcome)
              IN  resolution' = [resolution EXCEPT !.pc = IF after.raised THEN "raised"
                                                         ELSE "returned",
                                                   !.estimation = after.estimation,
                                                   !.u = after.u,
                                                   !.predict_called = ~ after.raised]
    /\ UNCHANGED <<engine_vars, matcher_vars, service_vars, transpiler_vars, process_vars, settings_vars, log_vars>>

\* A call of run_resolution: on a table of count rows, or on a table name
\* that was never ingested.
Call(count, table_exists) ==
    [pc |-> "called", count |-> count, table_exists |-> table_exists,
     estimation |-> "none", u |-> "default", predict_called |-> FALSE]

Calls == { Call(count, TRUE) : count \in Counts } \cup { Call(0, FALSE) }

\* The next call, after the last one has returned or raised.
ingest_and_call(call) ==
    /\ resolution.pc \in {"returned", "raised"}
    /\ resolution' = call
    /\ UNCHANGED <<engine_vars, matcher_vars, service_vars, transpiler_vars, process_vars, settings_vars, log_vars>>

EstimationInit ==
    /\ EngineInit /\ MatcherIdle /\ ServiceIdle /\ TranspilerIdle /\ ProcessesIdle
    /\ SettingsIdle /\ LogsIdle
    /\ resolution \in Calls

EstimationNext ==
    \/ run_resolution_training
    \/ \E call \in Calls : ingest_and_call(call)

EstimationSpec == EstimationInit /\ [][EstimationNext]_vars

-----------------------------------------------------------------------------
(***************************************************************************)
(* Several API processes on one host (uvicorn main:app with workers, or    *)
(* the server started twice).  Each process has its own splink_service,    *)
(* and its event loop runs one handler at a time: a handler that has       *)
(* started process_entity_resolution is not interrupted by another request *)
(* of the same process.  The processes run in parallel and share /tmp, so  *)
(* the file operations of process_entity_resolution are steps of their     *)
(* own: writing the temporary CSV (lines 155-160), ingesting it and        *)
(* resolving (163-253), removing it and returning (256-273).               *)
(* sessions[p] is the service of process p and where its handler stands;   *)
(* tmp is the file /tmp/input_data.csv.                                    *)
(***************************************************************************)
NumProcesses == 2

Processes == 1..NumProcesses

\* temp_csv_path = f"/tmp/{table_name}.csv": it does not exist, or holds a CSV.
NoFile == [exists |-> FALSE, content |-> {}]

CsvFile(data) == [exists |-> TRUE, content |-> data]

\* SplinkService.__init__ of each process: self.engine = None.
IdleSession ==
    [pc |-> "idle", started |-> 0, request |-> {}, table |-> NoTable,
     linker_run |-> 0, predictions_run |-> 0, response |-> [op |-> "none"]]

\* self.engine = EntityResolutionEngine(); then the request's CSV is written
\* to the temporary path, over whatever is there.
write_temp_csv(p, data) ==
    /\ sessions[p].pc = "idle"
    /\ sessions[p].started < MaxRuns
    /\ sessions' = [sessions EXCEPT ![p] =
                      [pc |-> "ingest", started |-> sessions[p].started + 1,
                       request |-> data, table |-> NoTable,
                       linker_run |-> 0, predictions_run |-> 0,
                       response |-> [op |-> "none"]]]
    /\ tmp' = CsvFile(data)

\* ingest_data(temp_csv_path) reads the file as it is now (DuckDB raises if
\* it is gone: the except clause returns status error); run_resolution and
\* the clustering then work on the engine's table.
ingest_and_resolve(p) ==
    /\ sessions[p].pc = "ingest"
    /\ IF tmp.exists
       THEN sessions' = [sessions EXCEPT ![p].pc = "cleanup",
                                         ![p].table = Table(tmp.content),
                                         ![p].linker_run = sessions[p].started,
                                         ![p].predictions_run = sessions[p].started]
       ELSE sessions' = [sessions EXCEPT ![p].pc = "idle",
                                         ![p].response =
                                             [op |-> "resolve", status |-> "error",
                                              request |-> sessions[p].request,
                                              entities |-> {}]]
    /\ UNCHANGED tmp

\* if os.path.exists(temp_csv_path): os.remove(temp_csv_path); the response
\* lists the entities that were clustered in cluster_lookup.
cleanup_and_return(p) ==
    /\ sessions[p].pc = "cleanup"
    /\ tmp' = NoFile
    /\ sessions' = [sessions EXCEPT ![p].pc = "idle",
                                    ![p].response =
                                        [op |-> "resolve", status |-> "success",
                                         request |-> sessions[p].request,
                                         entities |-> sessions[p].table.ids]]

\* GET /api/clusters on process p: its event loop runs it only between two
\* other handlers.
read_clusters(p) ==
    /\ sessions[p].pc = "idle"
    /\ sessions[p].started > 0
    /\ sessions' = [sessions EXCEPT ![p].response =
                      [op |-> "clusters",
                       http |-> IF sessions[p].predictions_run = 0 THEN 400 ELSE 200,
                       linker_run |-> sessions[p].linker_run,
                       predictions_run |-> sessions[p].predictions_run,
                       entities |-> sessions[p].table.ids]]
    /\ UNCHANGED tmp

process_frame == <<engine_vars, matcher_vars, service_vars, resolution_vars, transpiler_vars,
                   settings_vars, log_vars>>

ProcessInit ==
    /\ EngineInit /\ MatcherIdle /\ ServiceIdle /\ ResolutionIdle /\ TranspilerIdle
    /\ SettingsIdle /\ LogsIdle
    /\ sessions = [p \in Processes |-> IdleSession]
    /\ tmp = NoFile

ProcessNext ==
    \/ \E p \in Processes, data \in ServiceData :
         write_temp_csv(p, data) /\ UNCHANGED process_frame
    \/ \E p \in Processes : ingest_and_resolve(p) /\ UNCHANGED process_frame
    \/ \E p \in Processes : cleanup_and_return(p) /\ UNCHANGED process_frame
    \/ \E p \in Processes : read_clusters(p) /\ UNCHANGED process_frame

ProcessSpec == ProcessInit /\ [][ProcessNext]_vars

-----------------------------------------------------------------------------
(***************************************************************************)
(* One engine used for several runs, a re-estimation of its model, and     *)
(* its statistics queries.  Here the linker also holds its model (the      *)
(* match probability it gives each comparison vector); linker.run and      *)
(* predictions.run record the run_resolution call (counted from 1) that    *)
(* made them.                                                              *)
(***************************************************************************)
QueryNoLinker == [model |-> [g \in GammaLevels |-> 0], run |-> 0] @@ NoLinker

QueryNoPredictions == [run |-> 0] @@ NoPredictions

\* The tables a caller ingests: the first n records.
QueryData == { 1..n : n \in 1..MaxRecords }

\* The rule lists of the settings; no table has a column postcode.
QueryRuleLists == { <<>>, <<"l.city = r.city">>, <<"l.postcode = r.postcode">> }

QueryThresholds == {50, 90}

\* The models Splink may estimate: the probability of a pair whose cities
\* differ (level 0) and of one whose cities agree (level 1).
QueryModels == { (0 :> 40) @@ (1 :> 95), (0 :> 70) @@ (1 :> 85), (0 :> 85) @@ (1 :> 70) }

\* run_resolution on an engine that has a table.  A rule that names a column
\* the table lacks makes Splink raise: in Linker(...), and nothing is
\* assigned, or later in predict, when self.linker is assigned already and
\* self.predictions stays what it was.  Else both are assigned.
run_resolution_steps(rules, model) ==
    LET new_linker == [none |-> FALSE, nodes |-> table.ids, blocking_rules |-> rules,
                       model |-> model, run |-> linker.run + 1]
        df_predict == Predict(BlockedPairs(table.ids, rules), model)
    IN  /\ ~ table.none
        /\ linker.run < MaxRuns
        /\ IF \E i \in 1..Len(rules) : ~ (RuleColumns(rules[i]) \subseteq ExistingColumns)
           THEN /\ linker' \in {linker, new_linker}
                /\ predictions' = predictions
                /\ result' = [op |-> "run_resolution", raised |-> TRUE]
           ELSE /\ linker' = new_linker
                /\ predictions' = [none |-> FALSE, rows |-> df_predict,
                                   run |-> linker.run + 1]
                /\ result' = [op |-> "run_resolution", raised |-> FALSE,
                              value |-> df_predict]
        /\ UNCHANGED table

\* run_em_estimation(blocking_rule): ValueError without a linker; else the
\* linker's m probabilities are estimated again, which may give any model.
\* self.predictions is not touched.
run_em_estimation(model) ==
    /\ IF linker.none
       THEN /\ result' = [op |-> "run_em_estimation", raised |-> TRUE]
            /\ UNCHANGED linker
       ELSE /\ linker' = [linker EXCEPT !.model = model]
            /\ result' = [op |-> "run_em_estimation", raised |-> FALSE,
                          status |-> "success"]
    /\ UNCHANGED <<table, predictions>>

\* Mutant: the clustering keeps of its input table only the pairs it used.
ClusteringInputFiltered(preds, threshold) ==
    [preds EXCEPT !.rows = { e \in preds.rows : e.match_probability >= threshold }]

\* cluster_pairwise_predictions_at_threshold(self.predictions, ...) reads the
\* prediction table and writes a table of its own.
ClusteringInput(preds, threshold) == preds

\* The size categories of get_cluster_stats' query.
size_category(cluster_size) ==
    CASE cluster_size = 1 -> "Singletons"
      [] cluster_size = 2 -> "Pairs"
      [] cluster_size = 3 -> "Triplets"
      [] OTHER -> "Large Groups (4+)"

\* GROUP BY size_category: a row for every category that has a cluster.
ClusterStats(lk, preds, threshold) ==
    LET cluster_counts == ClusterSizes(cluster_pairwise_predictions_at_threshold(lk, preds, threshold))
    IN  { [size_category |-> cat,
           count |-> Cardinality({ c \in DOMAIN cluster_counts :
                                     size_category(cluster_counts[c]) = cat })] :
            cat \in { size_category(cluster_counts[c]) : c \in DOMAIN cluster_counts } }

\* get_cluster_stats(threshold)
get_cluster_stats(threshold) ==
    /\ IF linker.none \/ predictions.none
       THEN /\ result' = [op |-> "get_cluster_stats", raised |-> FALSE,
                          threshold |-> threshold, value |-> {}]
            /\ UNCHANGED predictions
       ELSE /\ result' = [op |-> "get_cluster_stats", raised |-> FALSE,
                          threshold |-> threshold,
                          value |-> ClusterStats(linker, predictions.rows, threshold)]
            /\ predictions' = ClusteringInput(predictions, threshold)
    /\ UNCHANGED <<table, linker>>

\* The confidence buckets of get_match_statistics.
high_matches(preds) == Cardinality({ e \in preds : e.match_probability >= 95 })

medium_matches(preds) ==
    Cardinality({ e \in preds : e.match_probability >= 80 /\ e.match_probability < 95 })

low_matches(preds, threshold) ==
    Cardinality({ e \in preds : e.match_probability >= threshold /\ e.match_probability < 80 })

\* round((1 - actual / max) * 100, 2), in hundredths of a percent.
blocking_efficiency(actual_comparisons, max_comparisons) ==
    IF max_comparisons > 0
    THEN RoundDiv(10000 * (max_comparisons - actual_comparisons), max_comparisons)
    ELSE 0

\* The dictionary get_match_statistics returns on an engine with results.
MatchStatistics(tbl, lk, preds, threshold) ==
    LET row_count == Cardinality(tbl)
        max_comparisons == (row_count * (row_count - 1)) \div 2
        actual_comparisons == Cardinality(preds)
        cluster_sizes == ClusterSizes(cluster_pairwise_predictions_at_threshold(lk, preds, threshold))
    IN  [op |-> "get_match_statistics", raised |-> FALSE, error |-> "",
         threshold |-> threshold,
         total_records |-> row_count,
         max_possible_comparisons |-> max_comparisons,
         actual_comparisons |-> actual_comparisons,
         blocking_efficiency_percent_x100 |->
             blocking_efficiency(actual_comparisons, max_comparisons),
         comparisons_avoided |-> max_comparisons - actual_comparisons,
         total_matches |-> high_matches(preds) + medium_matches(preds)
                              + low_matches(preds, threshold),
         high_confidence |-> high_matches(preds),
         medium_confidence |-> medium_matches(preds),
         low_confidence |-> low_matches(preds, threshold),
         singletons |-> Cardinality({ c \in DOMAIN cluster_sizes : cluster_sizes[c] = 1 }),
         total_clusters |-> Cardinality(DOMAIN cluster_sizes)]

\* get_match_statistics(table_name, threshold)
get_match_statistics(threshold) ==
    /\ IF linker.none \/ predictions.none
       THEN /\ result' = [op |-> "get_match_statistics", raised |-> FALSE,
                          threshold |-> threshold,
                          error |-> "No matching results available. Run matching first."]
            /\ UNCHANGED predictions
       ELSE /\ result' = MatchStatistics(table.ids, linker, predictions.rows, threshold)
            /\ predictions' = ClusteringInput(predictions, threshold)
    /\ UNCHANGED <<table, linker>>

QueryInit ==
    /\ table = NoTable
    /\ linker = QueryNoLinker
    /\ predictions = QueryNoPredictions
    /\ result = NoResult
    /\ MatcherIdle /\ ServiceIdle /\ ResolutionIdle /\ TranspilerIdle /\ ProcessesIdle
    /\ SettingsIdle /\ LogsIdle

QueryNext ==
    \/ \E ds \in QueryData : ingest_data(ds) /\ UNCHANGED engine_frame
    \/ \E rules \in QueryRuleLists, model \in QueryModels :
         run_resolution_steps(rules, model) /\ UNCHANGED engine_frame
    \/ run_resolution_no_table /\ UNCHANGED engine_frame
    \/ \E model \in QueryModels : run_em_estimation(model) /\ UNCHANGED engine_frame
    \/ \E t \in QueryThresholds : get_clusters(t) /\ UNCHANGED engine_frame
    \/ \E t \in QueryThresholds : get_clusters_data(t) /\ UNCHANGED engine_frame
    \/ analyze_thresholds(DEFAULT_THRESHOLDS) /\ UNCHANGED engine_frame
    \/ \E t \in QueryThresholds : get_cluster_stats(t) /\ UNCHANGED engine_frame
    \/ \E t \in QueryThresholds : get_match_statistics(t) /\ UNCHANGED engine_frame

QuerySpec == QueryInit /\ [][QueryNext]_vars

(***************************************************************************)
(* The settings dictionary of a run.  A caller of run_resolution or of     *)
(* process_entity_resolution hands over a Python dict, which both          *)
(* functions receive by reference.  A dict is a function from its keys to  *)
(* their values; a comparison of the frontend is a dict with the keys      *)
(* output_column_name and comparison_library_name, and a comparison of     *)
(* splink.comparison_library is a record with the fields library and       *)
(* column.  caller_settings holds the dict as the caller built it          *)
(* (original), the dict as it is now (dict), the primary key column of the *)
(* calls, and, for every call so far, whether it raised and the settings   *)
(* its Linker was built from.                                              *)
(***************************************************************************)
\* The frontend's comparisons on the columns of the table.
FrontendComparisons ==
    { [output_column_name |-> c, comparison_library_name |-> m] :
        c \in {"unique_id", "name"},
        m \in {"exact_match", "levenshtein_at_thresholds"} }

ComparisonListsOfCaller ==
    { <<>> } \cup { <<c>> : c \in FrontendComparisons }
        \cup { << [output_column_name |-> "unique_id", comparison_library_name |-> "exact_match"],
                  [output_column_name |-> "name", comparison_library_name |-> "exact_match"] >> }

RuleListsOfCaller == { <<"l.city = r.city">>, <<"l.city = r.city", "l.postcode = r.postcode">> }

\* d with the key k set to v (d[k] = v in Python).
SetItem(d, k, v) == [x \in DOMAIN d \cup {k} |-> IF x = k THEN v ELSE d[x]]

\* d without the key k (d.pop(k), del d[k]).
DelItem(d, k) == [x \in DOMAIN d \ {k} |-> d[x]]

\* d with the key k set to v when the flag says the caller gave the key.
Given(d, flag, k, v) == IF flag THEN SetItem(d, k, v) ELSE d

\* The dictionaries of the callers: each of the keys threshold,
\* unique_id_column_name, blocking_rules, comparisons and
\* blocking_rules_to_generate_predictions is there or not.
CallerSettings ==
    { Given(Given(Given(Given(Given([link_type |-> "dedupe_only"],
          f[1], "threshold", 50),
          f[2], "unique_id_column_name", "unique_id"),
          f[3], "blocking_rules", br),
          f[4], "comparisons", cs),
          f[5], "blocking_rules_to_generate_predictions", bp) :
        f \in [1..5 -> BOOLEAN], br \in {<<"l.postcode = r.postcode">>},
        cs \in ComparisonListsOfCaller, bp \in RuleListsOfCaller }

PrimaryKeyColumns == {NULL, "unique_id"}

\* A comparison of the frontend is a dict; a converted one is an object of
\* splink.comparison_library, which has no method get.
IsDict(comp) == "output_column_name" \in DOMAIN comp

\* _convert_to_splink_comparison(comp), for the library names the frontend sends.
convert_to_splink_comparison(comp) ==
    CASE comp.comparison_library_name = "exact_match" ->
             [library |-> "ExactMatch", column |-> comp.output_column_name]
      [] comp.comparison_library_name = "levenshtein_at_thresholds" ->
             [library |-> "LevenshteinAtThresholds", column |-> comp.output_column_name]

\* _is_id_column(col_name)
is_id_column(col_name, d, primary_key_column) ==
    col_name = (IF primary_key_column # NULL THEN primary_key_column
                ELSE IF "unique_id_column_name" \in DOMAIN d
                     THEN d["unique_id_column_name"] ELSE "id")

\* converted_comparisons of process_entity_resolution
converted_comparisons(d, primary_key_column) ==
    LET kept == SelectSeq(d["comparisons"],
                          LAMBDA comp : ~ is_id_column(comp.output_column_name, d, primary_key_column))
    IN  [i \in 1..Len(kept) |-> convert_to_splink_comparison(kept[i])]

\* What run_resolution does to the settings before it builds the Linker.
SettingsOfRun(d, primary_key_column) ==
    LET popped == IF "threshold" \in DOMAIN d THEN DelItem(d, "threshold") ELSE d
    IN  IF primary_key_column # NULL
        THEN SetItem(popped, "unique_id_column_name", primary_key_column)
        ELSE popped

\* The three keys process_entity_resolution adds when they are missing.
WithDefaults(d) ==
    LET d1 == IF "blocking_rules_to_generate_predictions" \in DOMAIN d THEN d
              ELSE SetItem(d, "blocking_rules_to_generate_predictions", <<>>)
        d2 == IF "blocking_rules" \in DOMAIN d1 THEN d1 ELSE SetItem(d1, "blocking_rules", <<>>)
    IN  IF "comparisons" \in DOMAIN d2 THEN d2 ELSE SetItem(d2, "comparisons", <<>>)

\* What process_entity_resolution does to the settings before it calls
\* run_resolution: the comparisons converted, the rules filtered, the key
\* blocking_rules deleted.
SettingsOfService(d, primary_key_column) ==
    LET d1 == SetItem(d, "comparisons", converted_comparisons(d, primary_key_column))
        d2 == SetItem(d1, "blocking_rules_to_generate_predictions",
                      FilterRules(d1["blocking_rules_to_generate_predictions"], ExistingColumns))
    IN  DelItem(d2, "blocking_rules")

\* engine.run_resolution(table_name, settings, primary_key_column), called
\* on the caller's dictionary.
run_resolution_on_settings ==
    LET after == SettingsOfRun(caller_settings.dict, caller_settings.primary_key_column)
    IN  /\ Len(caller_settings.calls) < MaxRuns
        /\ caller_settings' =
             [caller_settings EXCEPT
                !.dict = after,
                !.calls = Append(@, [op |-> "run_resolution", raised |-> FALSE,
                                     linker_settings |-> after])]

\* service.process_entity_resolution(data_csv, settings, ...), called on the
\* caller's dictionary.  comp.get raises AttributeError on a comparison that
\* is a library object, and the handler of the function turns that into a
\* response with the status error.
process_entity_resolution_on_settings ==
    LET pk == caller_settings.primary_key_column
        d0 == WithDefaults(caller_settings.dict)
        after == SettingsOfRun(SettingsOfService(d0, pk), pk)
    IN  /\ Len(caller_settings.calls) < MaxRuns
        /\ IF \E i \in 1..Len(d0["comparisons"]) : ~ IsDict(d0["comparisons"][i])
           THEN caller_settings' =
                  [caller_settings EXCEPT
                     !.dict = d0,
                     !.calls = Append(@, [op |-> "process_entity_resolution", raised |-> TRUE,
                                          linker_settings |-> [link_type |-> NULL]])]
           ELSE caller_settings' =
                  [caller_settings EXCEPT
                     !.dict = after,
                     !.calls = Append(@, [op |-> "process_entity_resolution", raised |-> FALSE,
                                          linker_settings |-> after])]

settings_frame == <<engine_vars, matcher_vars, service_vars, resolution_vars, transpiler_vars,
                    process_vars, log_vars>>

SettingsInit ==
    /\ EngineInit /\ MatcherIdle /\ ServiceIdle /\ ResolutionIdle /\ TranspilerIdle
    /\ ProcessesIdle /\ LogsIdle
    /\ \E d \in CallerSettings, pk \in PrimaryKeyColumns :
         caller_settings = [pc |-> "caller", original |-> d, dict |-> d,
                            primary_key_column |-> pk, calls |-> <<>>]

SettingsNext ==
    \/ run_resolution_on_settings /\ UNCHANGED settings_frame
    \/ process_entity_resolution_on_settings /\ UNCHANGED settings_frame

SettingsSpec == SettingsInit /\ [][SettingsNext]_vars

(***************************************************************************)
(* main.py's demonstration: the five records of create_dummy_data are      *)
(* ingested, run_resolution scores the candidate pairs with the settings   *)
(* of main, and get_clusters(0.5) is asked for the pairs to cluster.  A    *)
(* name is the sequence of its characters.  The name comparison of main    *)
(* has the levels Exact match (2), Levenshtein <= 2 (1) and All other      *)
(* comparisons (0); its Null level takes no pair, for no name is missing.  *)
(***************************************************************************)
\* The ids of create_dummy_data.
DummyIds == {1, 2, 3, 4, 5}

\* The names of create_dummy_data.
DummyName(i) ==
    CASE i = 1 -> <<"J", "M", "A", "N", " ", "G", "r", "o", "u", "p">>
      [] i = 2 -> <<"J", ".", "M", ".", "A", ".", "N", ".", " ", "C", "o", "n", "s", "u", "l",
                    "t", "i", "n", "g">>
      [] i = 3 -> <<"G", "o", "o", "g", "l", "e">>
      [] i = 4 -> <<"A", "l", "p", "h", "a", "b", "e", "t", " ", "I", "n", "c", ".">>
      [] i = 5 -> <<"J", "M", "A", "N", " ", "G", "r", "o", "u", "p", " ", "L", "t", "d">>

\* One row of the edit-distance table: cur holds the columns 0..Len(cur)-1 of
\* the row of the character ca, prev is the row above.
RECURSIVE LevRow(_, _, _, _)
LevRow(prev, ca, b, cur) ==
    IF Len(cur) = Len(b) + 1 THEN cur
    ELSE LET j    == Len(cur)
             cost == IF ca = b[j] THEN 0 ELSE 1
         IN  LevRow(prev, ca, b,
                    Append(cur, Min({prev[j + 1] + 1, cur[j] + 1, prev[j] + cost})))

RECURSIVE LevRows(_, _, _, _)
LevRows(a, b, i, prev) ==
    IF i > Len(a) THEN prev[Len(b) + 1]
    ELSE LET row == LevRow(prev, a[i], b, <<i>>)
         IN  IF Len(row) = Len(b) + 1 THEN LevRows(a, b, i + 1, row) ELSE -1

\* levenshtein(name_l, name_r) of DuckDB
levenshtein(a, b) == LevRows(a, b, 1, [j \in 1..(Len(b) + 1) |-> j - 1])

\* The level of main's name comparison a pair falls in: the first level
\* whose condition holds.
NameLevels == {0, 1, 2}

NameLevel(l, r) ==
    IF DummyName(l) = DummyName(r) THEN 2
    ELSE IF levenshtein(DummyName(l), DummyName(r)) <= 2 THEN 1
    ELSE 0

\* The datasets of the demonstration: the first n records.
DemoData == { { i \in DummyIds : i <= n } : n \in 2..5 }

\* The probabilities the trained model may give the three levels.
DemoModels == [NameLevels -> Probs]

DemoThresholds == {50, 90}

\* The candidate pairs with the level of the name comparison each falls in.
Compared(pairs) ==
    { [unique_id_l |-> pr[1], unique_id_r |-> pr[2], gamma_name |-> NameLevel(pr[1], pr[2])] :
        pr \in pairs }

\* predict(threshold_match_probability=0.5) on the compared pairs, each
\* scored by the model's probability for the level of its names.
DemoPredict(compared, model) ==
    { [unique_id_l |-> c.unique_id_l, unique_id_r |-> c.unique_id_r,
       match_probability |-> model[c.gamma_name]] :
        c \in { x \in compared : model[x.gamma_name] >= PREDICT_THRESHOLD } }

\* run_resolution("input_data", settings) of main, with the rules the
\* settings name (none: every pair is a candidate).  The model the linker
\* has after its training is Splink's: any of DemoModels.
run_resolution_demo(rules) ==
    /\ ~ table.none
    /\ \E compared \in { Compared(BlockedPairs(table.ids, rules)) } :
         \E model \in DemoModels :
             /\ predictions' = Predictions(DemoPredict(compared, model))
             /\ result' = [op |-> "run_resolution", raised |-> FALSE,
                           value |-> DemoPredict(compared, model)]
    /\ linker' = [none |-> FALSE, nodes |-> table.ids, blocking_rules |-> rules]
    /\ UNCHANGED table

\* The clusters of the pairs get_clusters returned: the connected components
\* of the records under these pairs.
DemoClusters(nodes, rows) ==
    LET edges == { [unique_id_l |-> rows[i].left_id, unique_id_r |-> rows[i].right_id] :
                     i \in 1..Len(rows) }
    IN  { Component({n}, edges) : n \in nodes }

DemoNext ==
    \/ \E ds \in DemoData : ingest_data(ds) /\ UNCHANGED engine_frame
    \/ \E rules \in RuleLists : run_resolution_demo(rules) /\ UNCHANGED engine_frame
    \/ \E t \in DemoThresholds : get_clusters(t) /\ UNCHANGED engine_frame

DemoSpec == Init /\ [][DemoNext]_vars

(***************************************************************************)
(* The results endpoints of the API (src/backend/api.py).  A handler       *)
(* answers with a status and a body; raise HTTPException(status_code=s)    *)
(* inside its try block is an exception like any other, and the except     *)
(* clauses of the handler decide what the client gets.  The engine of the  *)
(* service is the variables table, linker and predictions, as in           *)
(* ServiceSpec; response records what the last handler answered.           *)
(***************************************************************************)
\* except HTTPException: raise, before except Exception: the status raised
\* in the try block is the status of the answer.
Reraised(status_code) == status_code

\* except Exception alone: HTTPException is an Exception, so the handler
\* answers 500 whatever status the try block raised.
CaughtAsException(status_code) == 500

\* An exception that is no HTTPException (an attribute of None, or a method
\* the service lacks): except Exception answers 500.
INTERNAL_SERVER_ERROR == 500

Answer(op, http) == [service EXCEPT !.response = [op |-> op, http |-> http]]

AnswerWith(op, http, body) ==
    [service EXCEPT !.response = [op |-> op, http |-> http, body |-> body]]

\* SplinkService.get_match_weights_chart: None without an engine or a linker,
\* and None as well when Splink fails to draw the chart.
ChartsOfService ==
    IF service.engine_none \/ linker.none THEN {NULL} ELSE {NULL, "html"}

\* GET /api/splink/charts/match-weights
api_get_match_weights_chart ==
    /\ \E chart_html \in ChartsOfService :
         service' = IF chart_html = NULL
                    THEN Answer("match_weights_chart", CaughtAsException(404))
                    ELSE AnswerWith("match_weights_chart", 200, chart_html)
    /\ UNCHANGED engine_vars

\* The chart endpoints whose method SplinkService does not define: the call
\* raises AttributeError.
ChartsWithoutMethod ==
    {"parameter_estimates_chart", "threshold_selection_chart", "comparison_viewer_chart"}

\* GET /api/splink/charts/parameter-estimates, threshold-selection and
\* comparison-viewer
api_get_chart_without_method(op) ==
    /\ service' = Answer(op, INTERNAL_SERVER_ERROR)
    /\ UNCHANGED engine_vars

\* GET /api/match-statistics: splink_service.engine is read without a test.
api_get_match_statistics(threshold) ==
    /\ service' =
         IF service.engine_none
         THEN Answer("match_statistics", INTERNAL_SERVER_ERROR)
         ELSE IF linker.none \/ predictions.none
         THEN Answer("match_statistics", CaughtAsException(404))
         ELSE AnswerWith("match_statistics", 200,
                         MatchStatistics(table.ids, linker, predictions.rows, threshold))
    /\ UNCHANGED engine_vars

\* GET /api/score-distribution.  The bins and the summary statistics of the
\* body are numpy's; the body keeps the number of predictions.
api_get_score_distribution ==
    /\ service' =
         IF service.engine_none \/ predictions.none
         THEN Answer("score_distribution", Reraised(400))
         ELSE AnswerWith("score_distribution", 200,
                         [total_comparisons |-> Cardinality(predictions.rows)])
    /\ UNCHANGED engine_vars

\* GET /api/threshold-analysis
api_get_threshold_analysis ==
    /\ service' =
         IF service.engine_none \/ predictions.none
         THEN Answer("threshold_analysis", Reraised(400))
         ELSE AnswerWith("threshold_analysis", 200,
                         [thresholds |->
                             [i \in 1..Len(DEFAULT_THRESHOLDS) |->
                                 ThresholdEntry(linker, predictions.rows, DEFAULT_THRESHOLDS[i])],
                          total_predictions |-> Cardinality(predictions.rows)])
    /\ UNCHANGED engine_vars

\* GET /api/export-clusters: export_clusters_with_data returns "error: ..."
\* when get_clusters_data raises.
api_export_clusters_with_data(threshold) ==
    /\ service' =
         IF service.engine_none \/ predictions.none \/ table.none
         THEN Answer("export_clusters", Reraised(400))
         ELSE AnswerWith("export_clusters", 200,
                         ClustersData(table.ids, linker, predictions.rows, threshold))
    /\ UNCHANGED engine_vars

\* The rule lists of the uploads: the quoted rule makes the run fail with or
\* without a linker.
ApiRuleLists == { <<>>, <<"l.city = r.city">>, << QUOTED_RULE >> }

ApiThresholds == {50, 90}

ApiNext ==
    \/ \E data \in ServiceData, rules \in ApiRuleLists, threshold \in ApiThresholds :
         resolve_entities_from_file(data, rules, threshold) /\ UNCHANGED service_frame
    \/ api_get_match_weights_chart /\ UNCHANGED service_frame
    \/ \E op \in ChartsWithoutMethod :
         api_get_chart_without_method(op) /\ UNCHANGED service_frame
    \/ \E threshold \in ApiThresholds :
         api_get_match_statistics(threshold) /\ UNCHANGED service_frame
    \/ api_get_score_distribution /\ UNCHANGED service_frame
    \/ api_get_threshold_analysis /\ UNCHANGED service_frame
    \/ \E threshold \in ApiThresholds :
         api_export_clusters_with_data(threshold) /\ UNCHANGED service_frame
    \/ \E threshold \in ApiThresholds :
         api_get_clusters(threshold) /\ UNCHANGED service_frame

ApiSpec == ServiceInit /\ [][ApiNext]_vars

(***************************************************************************)
(* The training-log stream of the API (src/backend/api.py).  Producers     *)
(* call emit_training_log, which puts an entry on the global queue; an     *)
(* entry is modelled by its number in the order of emission.  Every        *)
(* client of GET /api/training-logs has its own event_generator, a         *)
(* coroutine of the one event loop: between two of its awaits no other     *)
(* generator runs, so the test of the queue and the get_nowait after it    *)
(* are one step.  An event is delivered when the generator yields it to    *)
(* the client's response; events holds what a generator has yielded, each  *)
(* event with the length the queue had when the poll looked at it.         *)
(***************************************************************************)
\* Largest number of entries the producers emit.
MaxEntries == 2

\* Largest number of stream clients.
NumClients == 2

\* Largest number of polls of one client.
MaxPolls == 2

\* training_log_queue.put(log_entry)
put(queue, log_entry) == Append(queue, log_entry)

\* Mutant: the queue never reports that it is empty.
empty_never(queue) == FALSE

\* training_log_queue.empty()
empty(queue) == queue = <<>>

\* training_log_queue.get_nowait(): the head of the queue, or queue.Empty.
get_nowait(queue) ==
    IF queue = <<>>
    THEN [raised |-> TRUE, entry |-> 0, queue |-> queue]
    ELSE [raised |-> FALSE, entry |-> Head(queue), queue |-> Tail(queue)]

\* emit_training_log(message, level, data)
emit_training_log ==
    /\ emitted < MaxEntries
    /\ training_log_queue' = put(training_log_queue, emitted + 1)
    /\ emitted' = emitted + 1
    /\ UNCHANGED streams

\* GET /api/training-logs: a client connects and its generator starts.
training_logs ==
    /\ Len(streams) < NumClients
    /\ streams' = Append(streams, [connected |-> TRUE, pc |-> "is_disconnected",
                                   events |-> <<>>])
    /\ UNCHANGED <<training_log_queue, emitted>>

\* The client of the stream c goes away.
disconnect(c) ==
    /\ streams[c].connected
    /\ streams' = [streams EXCEPT ![c].connected = FALSE]
    /\ UNCHANGED <<training_log_queue, emitted>>

\* if await request.is_disconnected(): break
is_disconnected(c) ==
    /\ streams[c].pc = "is_disconnected"
    /\ Len(streams[c].events) < MaxPolls
    /\ streams' = [streams EXCEPT ![c].pc = IF streams[c].connected THEN "poll" ELSE "closed"]
    /\ UNCHANGED <<training_log_queue, emitted>>

\* One poll of the generator of c: a log event if the queue is not empty, a
\* heartbeat if it is, then asyncio.sleep(0.1).  queue.Empty is caught by
\* nothing in the generator and ends it.
poll(c) ==
    LET got == get_nowait(training_log_queue)
    IN  /\ streams[c].pc = "poll"
        /\ IF ~ empty(training_log_queue)
           THEN IF got.raised
                THEN /\ streams' = [streams EXCEPT ![c].pc = "failed"]
                     /\ UNCHANGED training_log_queue
                ELSE /\ streams' = [streams EXCEPT
                                      ![c].pc = "is_disconnected",
                                      ![c].events = Append(@, [event |-> "log", data |-> got.entry,
                                                               queued |-> Len(training_log_queue)])]
                     /\ training_log_queue' = got.queue
           ELSE /\ streams' = [streams EXCEPT
                                 ![c].pc = "is_disconnected",
                                 ![c].events = Append(@, [event |-> "heartbeat", data |-> 0,
                                                          queued |-> Len(training_log_queue)])]
                /\ UNCHANGED training_log_queue
        /\ UNCHANGED emitted

log_frame == <<engine_vars, matcher_vars, service_vars, resolution_vars, transpiler_vars,
               process_vars, settings_vars>>

LogInit ==
    /\ EngineInit /\ MatcherIdle /\ ServiceIdle /\ ResolutionIdle /\ TranspilerIdle
    /\ ProcessesIdle /\ SettingsIdle
    /\ training_log_queue = <<>>
    /\ emitted = 0
    /\ streams = <<>>

LogNext ==
    \/ emit_training_log /\ UNCHANGED log_frame
    \/ training_logs /\ UNCHANGED log_frame
    \/ \E c \in 1..Len(streams) : disconnect(c) /\ UNCHANGED log_frame
    \/ \E c \in 1..Len(streams) : is_disconnected(c) /\ UNCHANGED log_frame
    \/ \E c \in 1..Len(streams) : poll(c) /\ UNCHANGED log_frame

LogSpec == LogInit /\ [][LogNext]_vars

----------------------------------------------------------------------------
(***************************************************************************)
(* Properties of the engine (checked under Spec).                          *)
(***************************************************************************)
ClustersDataReturned == result.op = "get_clusters_data" /\ ~ result.raised

AnalysisReturned == result.op = "analyze_thresholds" /\ result.error = ""

\* The rows of a returned cluster table that carry the record id i.
RowsFor(df, i) == { j \in 1..Len(df) : df[j].unique_id = Str(i) }

\* C1: the cluster table returned by get_clusters_data holds every record of the
\* source table exactly once (and no other row), and every row has one cluster_id
\* that is not missing.
C1_PartitionComplete ==
    ClustersDataReturned =>
        /\ \A i \in table.ids : Cardinality(RowsFor(result.value, i)) = 1
        /\ Len(result.value) = Cardinality(table.ids)
        /\ \A j \in 1..Len(result.value) : result.value[j].cluster_id # NaN

\* C1 witness: a returned table in which one record was clustered with another by
\* Splink and one record, unknown to the clustering output, got a singleton id.
C1_Witness ==
    /\ ClustersDataReturned
    /\ \E j \in 1..Len(result.value) : result.value[j].cluster_id.singleton
    /\ \E j \in 1..Len(result.value) :
         ~ result.value[j].cluster_id.singleton /\ result.value[j].cluster_size >= 2

\* The cluster table fine refines the cluster table coarse: two records that
\* share a cluster in fine also share one in coarse.
Refines(fine, coarse) ==
    \A a, b \in 1..Len(fine) :
        fine[a].cluster_id = fine[b].cluster_id =>
            \A x, y \in 1..Len(coarse) :
                (coarse[x].unique_id = fine[a].unique_id /\ coarse[y].unique_id = fine[b].unique_id)
                    => coarse[x].cluster_id = coarse[y].cluster_id

\* Splink's clusters at t2 refine those at t1.
ClustersRefine(lk, preds, t1, t2) ==
    LET c1 == cluster_pairwise_predictions_at_threshold(lk, preds, t1)
        c2 == cluster_pairwise_predictions_at_threshold(lk, preds, t2)
    IN  \A a, b \in c2 :
            a.cluster_id = b.cluster_id =>
                \A x, y \in c1 :
                    (x.unique_id = a.unique_id /\ y.unique_id = b.unique_id)
                        => x.cluster_id = y.cluster_id

\* C2: on one prediction set, the clusters at a higher threshold refine the clusters
\* at a lower one: a get_clusters_data call at a higher threshold than the call
\* before it never puts two records together that the earlier table kept apart, and
\* the same holds of the clusterings analyze_thresholds counts.
C2_MonotonicRefinement ==
    /\ [][ ( /\ ClustersDataReturned
             /\ result'.op = "get_clusters_data" /\ ~ result'.raised
             /\ result.threshold < result'.threshold )
           => Refines(result'.value, result.value) ]_vars
    /\ [](~ predictions.none =>
            \A t1, t2 \in Thresholds :
                t1 < t2 => ClustersRefine(linker, predictions.rows, t1, t2))

\* C2 witness: a returned cluster table that separates two records joined by a
\* stored pair whose probability is below the threshold asked for.
C2_Witness ==
    /\ ClustersDataReturned
    /\ \E e \in predictions.rows :
         /\ e.match_probability < result.threshold
         /\ \E a, b \in 1..Len(result.value) :
              /\ result.value[a].unique_id = Str(e.unique_id_l)
              /\ result.value[b].unique_id = Str(e.unique_id_r)
              /\ result.value[a].cluster_id # result.value[b].cluster_id

\* C3: in one analyze_thresholds result the match_count at a higher threshold is at
\* most the match_count at a lower one, and a get_clusters call at a higher
\* threshold than the call before it returns at most as many matches.
C3_MatchCountMonotone ==
    /\ [](AnalysisReturned =>
            \A i, j \in 1..Len(result.thresholds) :
                result.thresholds[i].threshold < result.thresholds[j].threshold
                    => result.thresholds[j].match_count <= result.thresholds[i].match_count)
    /\ [][ ( /\ result.op = "get_clusters" /\ result'.op = "get_clusters"
             /\ result.threshold < result'.threshold )
           => Len(result'.value) <= Len(result.value) ]_vars

\* C3 witness: an analysis whose match_count strictly falls between two thresholds.
C3_Witness ==
    /\ AnalysisReturned
    /\ \E i, j \in 1..Len(result.thresholds) :
         /\ result.thresholds[i].threshold < result.thresholds[j].threshold
         /\ result.thresholds[j].match_count < result.thresholds[i].match_count
         /\ result.thresholds[j].match_count > 0

\* C4 as stated: in one analyze_thresholds result the cluster_count at a higher
\* threshold is at most the cluster_count at a lower one.
C4_ClusterCountNeverRises ==
    AnalysisReturned =>
        \A i, j \in 1..Len(result.thresholds) :
            result.thresholds[i].threshold < result.thresholds[j].threshold
                => result.thresholds[j].cluster_count <= result.thresholds[i].cluster_count

\* C4 amended: in one analyze_thresholds result the cluster_count at a higher
\* threshold is at least the cluster_count at a lower one (clusters only split).
C4_ClusterCountNeverFalls ==
    AnalysisReturned =>
        \A i, j \in 1..Len(result.thresholds) :
            result.thresholds[i].threshold < result.thresholds[j].threshold
                => result.thresholds[j].cluster_count >= result.thresholds[i].cluster_count

\* C4 witness: an analysis whose cluster_count strictly rises with the threshold.
C4_Witness ==
    /\ AnalysisReturned
    /\ \E i, j \in 1..Len(result.thresholds) :
         /\ result.thresholds[i].threshold < result.thresholds[j].threshold
         /\ result.thresholds[j].cluster_count > result.thresholds[i].cluster_count

\* The candidate pairs of the linker, each scored by a model, none left out.
Scored(pairs, model) ==
    { [unique_id_l |-> pr[1], unique_id_r |-> pr[2],
       match_probability |-> model[Gamma(pr[1], pr[2])]] : pr \in pairs }

Candidates == BlockedPairs(linker.nodes, linker.blocking_rules)

\* C15: after a run the stored predictions are all the candidate pairs with
\* their scores, and the matches a query returns for a threshold t are exactly
\* the candidate pairs with match_probability >= t, also for t below 0.5.
C15_FullCandidateSet ==
    ~ predictions.none =>
        \E model \in [GammaLevels -> Probs] :
            /\ predictions.rows = Scored(Candidates, model)
            /\ result.op = "get_clusters" =>
                   result.value = ClustersQuery(Scored(Candidates, model), result.threshold)

\* What the engine stores: the candidate pairs that score 0.5 or more, so a
\* query with a lower threshold returns no more than one with 0.5.
C15_StoredAtHalfOrAbove ==
    ~ predictions.none =>
        /\ \E model \in [GammaLevels -> Probs] :
              predictions.rows = Predict(Candidates, model)
        /\ \A e \in predictions.rows : e.match_probability >= PREDICT_THRESHOLD
        /\ (result.op = "get_clusters" /\ result.threshold <= PREDICT_THRESHOLD) =>
               Len(result.value) = Cardinality(predictions.rows)

\* The last call was a query made while the engine had no predictions.
QueriedBeforePredictions ==
    /\ result.op \in {"get_clusters", "get_clusters_data", "analyze_thresholds"}
    /\ predictions.none

\* The call ended in an explicit failure: an exception or an error value.
ExplicitFailure ==
    CASE result.op = "analyze_thresholds" -> result.error # ""
      [] OTHER -> result.raised

\* C16: a clustering or statistics query made before any prediction exists
\* ends in an explicit failure, never in an empty result.
C16_NotReadyIsExplicit == QueriedBeforePredictions => ExplicitFailure

\* What holds: get_clusters_data raises and analyze_thresholds returns an
\* error, while get_clusters returns the empty list.
C16_NotReadyByOperation ==
    QueriedBeforePredictions =>
        CASE result.op = "get_clusters" -> ~ result.raised /\ result.value = <<>>
          [] OTHER -> ExplicitFailure

\* The last call got past Linker(...), into the training step.
ReachedTraining == resolution.pc \in {"returned", "raised"} /\ resolution.table_exists

\* C18: u-estimation runs only on a table of more than 50 rows and is skipped
\* otherwise; whether it is skipped, fails or succeeds, the run is not aborted
\* and goes on to predict, and after a skip or a failure the linker has the
\* default u values.
C18_InsufficientData ==
    ReachedTraining =>
        /\ resolution.estimation \in {"trained", "failed"} <=> resolution.count > 50
        /\ resolution.estimation = "skipped" <=> resolution.count <= 50
        /\ resolution.estimation \in {"skipped", "failed"} => resolution.u = "default"
        /\ resolution.pc = "returned"
        /\ resolution.predict_called

\* C18 witnesses: a run on exactly 50 rows that skipped the estimation and
\* went on to predict, and a run whose estimation failed and went on to predict.
C18_Witness ==
    /\ resolution.pc = "returned"
    /\ resolution.count = 50
    /\ resolution.estimation = "skipped"
    /\ resolution.predict_called

C18_FailedEstimationPredicts ==
    /\ resolution.pc = "returned"
    /\ resolution.estimation = "failed"
    /\ resolution.predict_called

----------------------------------------------------------------------------
(***************************************************************************)
(* Properties of the browser matcher (checked under WorkerSpec).           *)
(***************************************************************************)
Ran == matches.op = "run_entity_resolution"

Succeeded == Ran /\ matches.status = "success"

\* The sum of the values of a function with a finite domain.
RECURSIVE SumOver(_, _)
SumOver(f, D) ==
    IF D = {} THEN 0
    ELSE LET d == CHOOSE x \in D : TRUE IN f[d] + SumOver(f, D \ {d})

\* The comparison definitions a run scores with: those of the settings, or the
\* default comparison on name when the settings have none.
Definitions ==
    IF matcher.comparisons = <<>> THEN << [output_column_name |-> "name"] >>
    ELSE matcher.comparisons

\* C5: for every scored candidate pair, match_weight is the sum of the pair's
\* weight columns, and there is exactly one weight column per comparison
\* definition, holding that definition's weight for the pair.
C5_TotalWeightIsSum ==
    Succeeded =>
        \A row \in matches.scored_pairs :
            /\ row.match_weight = SumOver(row.weights, DOMAIN row.weights)
            /\ Cardinality(DOMAIN row.weights) = Len(Definitions)
            /\ \A i \in 1..Len(Definitions) :
                 /\ Definitions[i].output_column_name \in DOMAIN row.weights
                 /\ row.weights[Definitions[i].output_column_name] =
                      CaseValue(generate_comparison_sql(Definitions[i]),
                                row.record_l, row.record_r)

\* A pair scored with two definitions whose weights are both non-zero.
C5_Witness ==
    /\ Succeeded
    /\ \E row \in matches.scored_pairs :
         /\ Len(matcher.comparisons) = 2
         /\ row.weights["name"] # 0
         /\ row.weights["city"] # 0
         /\ row.match_weight = row.weights["name"] + row.weights["city"]

\* The logistic transform in base 2: 1 / (1 + 2^(-w)).
ProbabilityBase2(w) == Logistic(w, Pow2Neg(Abs(w)))

\* The tolerance of a comparison of two probabilities: about 0.001.
TOLERANCE == PUNIT \div 1024

\* C6: for every scored candidate pair, match_probability is
\* 1 / (1 + 2^(-match_weight)) to within the tolerance.
C6_Base2Logistic ==
    Succeeded =>
        \A row \in matches.scored_pairs :
            Abs(row.match_probability - ProbabilityBase2(row.match_weight)) <= TOLERANCE

\* C7: every candidate pair has id_l < id_r, and no two rows of the candidate
\* set, of the scored pairs or of the returned matches are the same unordered
\* pair of records.
SamePair(a, b) == {a.id_l, a.id_r} = {b.id_l, b.id_r}

OrderedAndOnce(rows) ==
    /\ \A a \in rows : a.id_l < a.id_r
    /\ \A a, b \in rows : SamePair(a, b) => a = b

C7_OrderedPairsOnce ==
    Succeeded =>
        /\ OrderedAndOnce(matches.candidate_pairs)
        /\ OrderedAndOnce(matches.scored_pairs)
        /\ OrderedAndOnce({ matches.matches[i] : i \in 1..Len(matches.matches) })
        /\ \A i, j \in 1..Len(matches.matches) :
             SamePair(matches.matches[i], matches.matches[j]) => i = j

\* A candidate pair that satisfies two blocking rules, in a run with other
\* records on the table.
C7_Witness ==
    /\ Succeeded
    /\ Len(matcher.blocking_rules) = 2
    /\ Cardinality(DOMAIN browser_table) >= 3
    /\ \E c \in matches.candidate_pairs :
         \A i \in 1..2 :
            BlockingValue(matcher.blocking_rules[i], c.record_l, c.record_r) = "TRUE"

\* The pairs of distinct records of the table that satisfy a blocking rule.
SatisfyingPairs ==
    { PairRow(browser_table[i], browser_table[j]) :
        <<i, j>> \in { q \in (DOMAIN browser_table) \X (DOMAIN browser_table) :
                        /\ q[1] < q[2]
                        /\ \E k \in 1..Len(matcher.blocking_rules) :
                             BlockingValue(parse_blocking_rule(matcher.blocking_rules[k]),
                                           browser_table[q[1]], browser_table[q[2]]) = "TRUE" } }

\* C8: with a non-empty rule set the candidate set is exactly the set of the
\* pairs of distinct records that satisfy at least one blocking rule.
C8_CandidatesIffRule ==
    (Succeeded /\ matcher.blocking_rules # <<>>) =>
        matches.candidate_pairs = SatisfyingPairs

\* The half of C8 that holds: no pair that matches no rule is emitted.
C8_OnlySatisfyingPairs ==
    (Succeeded /\ matcher.blocking_rules # <<>>) =>
        matches.candidate_pairs \subseteq SatisfyingPairs

\* The levels of a definition are conditions on its column or "ELSE".
Classifiable(comparison) ==
    \A i \in 1..Len(comparison_levels(comparison)) :
        LET cond == get(comparison_levels(comparison)[i], "sql_condition", "")
        IN  cond = "ELSE" \/ duckdb_cond(cond, comparison.output_column_name).valid

\* The predicate of a level as the settings declare it: "ELSE" holds of every pair.
LevelHolds(level, col, l, r) ==
    \/ level.sql_condition = "ELSE"
    \/ /\ level.sql_condition # "ELSE"
       /\ CondValue(duckdb_cond(level.sql_condition, col), l, r) = "TRUE"

\* The weight of the first level of the definition that holds of the pair, or
\* the catch-all's weight.
FirstLevelWeight(comparison, l, r) ==
    LET levels == comparison_levels(comparison)
        holds  == { i \in 1..Len(levels) :
                      LevelHolds(levels[i], comparison.output_column_name, l, r) }
    IN  IF holds = {} THEN ELSE_WEIGHT ELSE LevelWeight(levels[Min(holds)], Min(holds) - 1)

\* C9: when the settings declare comparison levels whose weights can be
\* computed, the run scores every candidate pair, and for every definition the
\* pair's weight is that of the first declared level that holds, or the
\* catch-all's when none holds; a level declared as "ELSE" holds of every pair.
C9_FirstLevelOrCatchAll ==
    ( /\ Ran
      /\ \A i \in 1..Len(matcher.comparisons) :
           /\ comparison_levels(matcher.comparisons[i]) # <<>>
           /\ Classifiable(matcher.comparisons[i])
           /\ ~GenerateRaises(matcher.comparisons[i]) )
    => /\ matches.status = "success"
       /\ \A row \in matches.scored_pairs : \A i \in 1..Len(matcher.comparisons) :
            row.weights[matcher.comparisons[i].output_column_name] =
                FirstLevelWeight(matcher.comparisons[i], row.record_l, row.record_r)

\* The part of C9 that holds: the same without a level declared as "ELSE".
C9_WithoutElseLevel ==
    ( /\ Ran
      /\ \A i \in 1..Len(matcher.comparisons) :
           /\ comparison_levels(matcher.comparisons[i]) # <<>>
           /\ Classifiable(matcher.comparisons[i])
           /\ ~GenerateRaises(matcher.comparisons[i])
           /\ \A k \in 1..Len(comparison_levels(matcher.comparisons[i])) :
                comparison_levels(matcher.comparisons[i])[k].sql_condition # "ELSE" )
    => /\ matches.status = "success"
       /\ \A row \in matches.scored_pairs : \A i \in 1..Len(matcher.comparisons) :
            row.weights[matcher.comparisons[i].output_column_name] =
                FirstLevelWeight(matcher.comparisons[i], row.record_l, row.record_r)

\* C10: computing the weights of the settings' levels never fails: no run ends
\* with the error of math.log2.
C10_WeightNeverFails ==
    Ran => matches.error # "math domain error"

\* The part of C10 that holds: with m_probability > 0 no run ends with that
\* error, a level with u_probability = 0 has the sentinel weight 10.0, and the
\* weight of a level with m = 2u is 1.0.
C10_WeightOfPositiveM ==
    /\ ( /\ Ran
         /\ \A i \in 1..Len(matcher.comparisons) :
              \A k \in 1..Len(comparison_levels(matcher.comparisons[i])) :
                 m_probability(comparison_levels(matcher.comparisons[i])[k], k - 1) > 0 )
       => matches.error # "math domain error"
    /\ LevelWeight(ExactLevel("name", 90, 0), 0) = 10 * WUNIT
    /\ LevelWeight(ExactLevel("name", 20, 10), 0) = WUNIT

\* The definition declares a level with is_null_level.
DeclaresNullLevel(comparison) ==
    \E k \in 1..Len(comparison_levels(comparison)) :
        get(comparison_levels(comparison)[k], "is_null_level", FALSE)

\* Either value of the pair is null in the definition's column.
EitherNull(comparison, row) ==
    \/ row.record_l[comparison.output_column_name] = SQLNULL
    \/ row.record_r[comparison.output_column_name] = SQLNULL

\* C11: a scored pair in which either value of a definition's column is null
\* has weight 0 for that column when the definition declares an is_null level,
\* and the catch-all weight when it declares none.
C11_NullPairWeight ==
    Succeeded =>
        \A row \in matches.scored_pairs : \A i \in 1..Len(matcher.comparisons) :
            EitherNull(matcher.comparisons[i], row) =>
                row.weights[matcher.comparisons[i].output_column_name] =
                    IF DeclaresNullLevel(matcher.comparisons[i]) THEN 0 ELSE ELSE_WEIGHT

\* The part of C11 that holds: without an is_null level a pair with a null
\* value gets the catch-all weight.
C11_NullPairCatchAll ==
    Succeeded =>
        \A row \in matches.scored_pairs : \A i \in 1..Len(matcher.comparisons) :
            (EitherNull(matcher.comparisons[i], row)
                /\ ~DeclaresNullLevel(matcher.comparisons[i])) =>
                row.weights[matcher.comparisons[i].output_column_name] = ELSE_WEIGHT

\* Every unordered pair of distinct records of the table.
CrossProduct ==
    { PairRow(browser_table[q[1]], browser_table[q[2]]) :
        q \in { q \in (DOMAIN browser_table) \X (DOMAIN browser_table) : q[1] < q[2] } }

\* C14: when the rule set is empty the candidate set is the full cross-product:
\* every unordered pair of distinct records is a candidate.
C14_EmptyRulesCrossProduct ==
    (Succeeded /\ matcher.blocking_rules = <<>>) => matches.candidate_pairs = CrossProduct

\* What the matcher does with an empty rule set: it keeps only pairs whose
\* names begin with the same letter, and no more than the limit.
C14_EmptyRulesFirstLetter ==
    (Succeeded /\ matcher.blocking_rules = <<>>) =>
        /\ \A c \in matches.candidate_pairs :
              Eq3(substr1(c.record_l.name), substr1(c.record_r.name)) = "TRUE"
        /\ Cardinality(matches.candidate_pairs) <= CANDIDATE_LIMIT

----------------------------------------------------------------------------
(***************************************************************************)
(* Properties of the service (checked under ServiceSpec).                  *)
(***************************************************************************)
\* The last request was a resolution run, and this is its response.
RunAnswered == service.response.op = "resolve" /\ service.response.http = 200

\* The rules of a request without those that name a column the table lacks.
WithoutAbsentFields(rules) ==
    SelectSeq(rules, LAMBDA r : RuleColumns(r) \subseteq ExistingColumns)

\* The run succeeded and is the run of the given rules.
RanWithRules(rules) ==
    /\ service.response.status = "success"
    /\ ~linker.none
    /\ linker.blocking_rules = rules
    /\ { <<e.unique_id_l, e.unique_id_r>> : e \in predictions.rows }
         \subseteq BlockedPairs(table.ids, rules)

\* C12: a run whose request has rules on absent fields does not fail, and it is
\* the run of the same request with those rules omitted.
C12_AbsentFieldRuleDropped ==
    RunAnswered => RanWithRules(WithoutAbsentFields(service.response.rules))

\* The part of C12 that holds: the same for rules that write fields as l.name.
C12_UnquotedRuleDropped ==
    (RunAnswered /\ \A i \in 1..Len(service.response.rules) :
                        service.response.rules[i] # QUOTED_RULE)
        => RanWithRules(WithoutAbsentFields(service.response.rules))

\* A request with a threshold outside [0, 1] has just been answered.
InvalidThresholdAnswered ==
    /\ service' # service
    /\ service'.response.op \in {"resolve", "clusters"}
    /\ ~ ThresholdValid(service'.response.threshold)

\* The answer is a rejection (a 4xx status) and the engine is as it was:
\* nothing was ingested, scored or clustered.
RejectedBeforeComputation ==
    /\ service'.response.http \in {400, 422}
    /\ UNCHANGED engine_vars

\* C17: every entry point that takes a threshold rejects a threshold outside
\* [0, 1] before it ingests, scores or clusters anything.
C17_InvalidThresholdRejected ==
    [][InvalidThresholdAnswered => RejectedBeforeComputation]_vars

\* What holds: the JSON route, whose request model bounds the threshold,
\* rejects it with 422 and leaves the engine alone.
C17_JsonResolveRejects ==
    [][\A data \in ServiceData, rules \in ServiceRuleLists, threshold \in ServiceThresholds :
          (~ ThresholdValid(threshold) /\ resolve_entities(data, rules, threshold)) =>
              (service'.response.http = 422 /\ UNCHANGED engine_vars)]_vars

\* C19: whatever runs the session has made, and however they ended, its
\* engine holds no linker and no predictions other than those of the run
\* started last, and a clusters query answers from that run or not at all.
C19_OnlyLatestRun ==
    /\ service.linker_run \in {0, service.started}
    /\ service.predictions_run \in {0, service.started}
    /\ linker.none <=> service.linker_run = 0
    /\ predictions.none <=> service.predictions_run = 0
    /\ (service.response.op = "clusters" /\ service.response.http = 200) =>
           service.response.run = service.started

\* C19 witness: a second run has failed, so the session has no predictions,
\* and the clusters query that follows is refused rather than answered from
\* the run before.
C19_Witness ==
    /\ service.started = 2
    /\ predictions.none
    /\ service.response.op = "clusters"
    /\ service.response.http = 400

\* A clusters query after the second run that is answered from that run.
C19_AnsweredFromSecondRun ==
    /\ service.started = 2
    /\ service.response.op = "clusters"
    /\ service.response.http = 200
    /\ service.response.run = 2

-----------------------------------------------------------------------------
(***************************************************************************)
(* Properties of the rule transpiler (checked under TranspilerSpec).       *)
(***************************************************************************)
Compiled == transpiled.pc = "compiled"

\* The parts of the rule that name a field and a method compile_part does
\* not know.
UnknownMethodParts ==
    { i \in 1..Len(transpiled.parts) :
        transpiled.parts[i].field # NULL /\ transpiled.parts[i].method \notin KnownMethods }

\* C13: a rule with a part whose method is not one of the known methods is
\* dropped: compile_rule gives no predicate for it.
C13_UnknownMethodDropped ==
    (Compiled /\ UnknownMethodParts # {}) => transpiled.sql = NULL

\* What the code does with such a part: it compiles it as exact equality
\* of the field, so the rule always has a predicate.
C13_UnknownMethodIsExact ==
    Compiled =>
        \A i \in UnknownMethodParts :
            /\ compile_part(transpiled.parts[i])
                   = compile_part([transpiled.parts[i] EXCEPT !.method = "exact"])
            /\ transpiled.sql # NULL

-----------------------------------------------------------------------------
(***************************************************************************)
(* Properties of the API processes (checked under ProcessSpec).            *)
(***************************************************************************)
\* A process never has its handler inside a run while it answers a query,
\* and what a query sees of the model and of the predictions is of one run.
SameSessionSerialized ==
    \A p \in Processes :
        /\ sessions[p].predictions_run \in {0, sessions[p].linker_run}
        /\ sessions[p].response.op = "clusters" =>
               /\ sessions[p].pc = "idle"
               /\ sessions[p].response.predictions_run
                      \in {0, sessions[p].response.linker_run}
               /\ sessions[p].response.linker_run \in {0, sessions[p].started}

\* A session works on its own request only: the table it holds is the CSV of
\* its request, and its run ends with the entities of that CSV.
SessionsIndependent ==
    \A p \in Processes :
        /\ ~ sessions[p].table.none => sessions[p].table.ids = sessions[p].request
        /\ sessions[p].response.op = "resolve" =>
               /\ sessions[p].response.status = "success"
               /\ sessions[p].response.entities = sessions[p].response.request

\* C20: the requests of one session are serialized, so that a query never
\* sees a model and predictions of different runs, and two independent
\* sessions share no mutable state: no engine, table or temporary file.
C20_SerializedAndIndependent == SameSessionSerialized /\ SessionsIndependent

\* The half of C20 that holds: one process runs its handlers one at a time.
C20_SameSessionSerialized == SameSessionSerialized

-----------------------------------------------------------------------------
(***************************************************************************)
(* Properties of the engine's runs and queries (checked under QuerySpec).  *)
(***************************************************************************)
\* The engine has predictions, and they are of the run that made its linker.
ResultsOfOneRun == ~ linker.none /\ ~ predictions.none /\ predictions.run = linker.run

\* The pairs the linker's present model scores 0.5 or more.
PredictionsOfCurrentModel ==
    Predict(BlockedPairs(linker.nodes, linker.blocking_rules), linker.model)

\* C21: once the scoring parameters have changed (run_em_estimation has
\* estimated the model again), a query answers with pairs scored by the
\* changed parameters, not with the predictions made before the change.
C21_RecomputedAfterChange ==
    (result.op = "get_clusters" /\ ResultsOfOneRun) =>
        result.value = ClustersQuery(PredictionsOfCurrentModel, result.threshold)

\* What the engine does: the query answers from the stored predictions,
\* whatever the model of the linker is now.
C21_AnsweredFromStored ==
    (result.op = "get_clusters" /\ ResultsOfOneRun) =>
        result.value = ClustersQuery(predictions.rows, result.threshold)

ReadQueries == {"analyze_thresholds", "get_clusters", "get_clusters_data",
                "get_cluster_stats", "get_match_statistics"}

\* r is what the query r.op, with r's threshold, returns on the engine state
\* tbl, lk, preds: asking again on that state gives r again.
Repeatable(r, tbl, lk, preds) ==
    CASE r.op = "get_clusters" ->
           r.value = IF preds.none THEN <<>> ELSE ClustersQuery(preds.rows, r.threshold)
      [] r.op = "get_clusters_data" ->
           IF preds.none \/ tbl.none THEN r.raised
           ELSE ~ r.raised /\ r.value = ClustersData(tbl.ids, lk, preds.rows, r.threshold)
      [] r.op = "get_cluster_stats" ->
           r.value = IF lk.none \/ preds.none THEN {}
                     ELSE ClusterStats(lk, preds.rows, r.threshold)
      [] r.op = "get_match_statistics" ->
           IF lk.none \/ preds.none THEN r.error # ""
           ELSE r = MatchStatistics(tbl.ids, lk, preds.rows, r.threshold)
      [] r.op = "analyze_thresholds" ->
           IF preds.none THEN r.error # ""
           ELSE r.thresholds = [ k \in 1..Len(DEFAULT_THRESHOLDS) |->
                                   ThresholdEntry(lk, preds.rows, DEFAULT_THRESHOLDS[k]) ]

StatisticsReturned == result.op = "get_match_statistics" /\ result.error = ""

\* N * (N - 1) / 2 for the N records of the table.
MaxComparisons == (Cardinality(table.ids) * (Cardinality(table.ids) - 1)) \div 2

\* The candidate pairs: what the blocking rules of the linker let through.
CandidatePairs == BlockedPairs(linker.nodes, linker.blocking_rules)

\* C23: the reported blocking efficiency is 1 - |candidate_pairs| / (N*(N-1)/2)
\* for the pairs blocking produced, whatever their scores; it is between 0
\* and 100 percent, 0 when N < 2, and comparisons_avoided is not negative.
C23_BlockingEfficiency ==
    StatisticsReturned =>
        /\ result.blocking_efficiency_percent_x100 =
               IF Cardinality(table.ids) < 2 THEN 0
               ELSE RoundDiv(10000 * (MaxComparisons - Cardinality(CandidatePairs)),
                             MaxComparisons)
        /\ result.blocking_efficiency_percent_x100 \in 0..10000
        /\ result.comparisons_avoided >= 0

\* What the engine reports: the share of all pairs that is absent from the
\* stored predictions, which hold only the pairs that scored 0.5 or more.
C23_CountsStoredPredictions ==
    StatisticsReturned =>
        /\ result.actual_comparisons = Cardinality(predictions.rows)
        /\ result.comparisons_avoided = MaxComparisons - Cardinality(predictions.rows)
        /\ MaxComparisons > 0 =>
               result.blocking_efficiency_percent_x100 =
                   RoundDiv(10000 * result.comparisons_avoided, MaxComparisons)

\* Even when the table is the one the run was made on, the reported
\* efficiency differs from that of the blocking.
C23_SameTableStillDiffers ==
    /\ StatisticsReturned /\ ResultsOfOneRun
    /\ table.ids = linker.nodes
    /\ result.actual_comparisons < Cardinality(CandidatePairs)

\* The rows of the returned cluster table with the same cluster_id as row i.
SameCluster(df, i) == { j \in 1..Len(df) : df[j].cluster_id = df[i].cluster_id }

\* The records of the table the clustering has not assigned: the linker was
\* made on a table without them.
Unassigned == table.ids \ linker.nodes

\* C24: in the table of get_clusters_data the cluster_size of a row is the
\* number of rows with its cluster_id, and a record without a cluster
\* assignment is in a singleton cluster of size 1 whose identifier no other
\* record has.
C24_ClusterSizes ==
    (result.op = "get_clusters_data" /\ ~ result.raised) =>
        LET df == result.value
        IN  /\ \A i \in 1..Len(df) : df[i].cluster_size = Cardinality(SameCluster(df, i))
            /\ \A u \in Unassigned :
                  \E i \in 1..Len(df) :
                      /\ df[i].unique_id = Str(u)
                      /\ df[i].cluster_id = SingletonId(Str(u))
                      /\ df[i].cluster_size = 1
                      /\ SameCluster(df, i) = {i}

\* C24 witness: a cluster table with a record that has no assignment and a
\* cluster of two records.
C24_Witness ==
    /\ result.op = "get_clusters_data" /\ ~ result.raised
    /\ Unassigned # {}
    /\ \E i \in 1..Len(result.value) : result.value[i].cluster_size = 2

\* The stored pairs at or above the threshold of the statistics query.
AtOrAbove == { e \in predictions.rows : e.match_probability >= result.threshold }

\* The three buckets as sets of stored pairs.
HighBucket == { e \in predictions.rows : e.match_probability >= 95 }

MediumBucket ==
    { e \in predictions.rows : e.match_probability >= 80 /\ e.match_probability < 95 }

LowBucket ==
    { e \in predictions.rows :
        e.match_probability >= result.threshold /\ e.match_probability < 80 }

\* C27: for every threshold the three confidence buckets of
\* get_match_statistics are pairwise disjoint, hold only pairs with
\* match_probability >= threshold, and together are as many as the stored
\* pairs with match_probability >= threshold.
C27_BucketsPartitionMatches ==
    StatisticsReturned =>
        /\ result.high_confidence = Cardinality(HighBucket)
        /\ result.medium_confidence = Cardinality(MediumBucket)
        /\ result.low_confidence = Cardinality(LowBucket)
        /\ HighBucket \cap MediumBucket = {}
        /\ HighBucket \cap LowBucket = {}
        /\ MediumBucket \cap LowBucket = {}
        /\ (HighBucket \cup MediumBucket \cup LowBucket) \subseteq AtOrAbove
        /\ result.total_matches = Cardinality(AtOrAbove)

\* What holds: the buckets are disjoint, and they are the pairs at or above
\* the threshold whenever the threshold is 0.8 or less.
C27_BucketsUpToMedium ==
    StatisticsReturned =>
        /\ result.total_matches = Cardinality(HighBucket \cup MediumBucket \cup LowBucket)
        /\ result.threshold <= 80 => result.total_matches = Cardinality(AtOrAbove)

\* C28: whatever run_resolution calls an engine has seen, and wherever they
\* raised, its predictions (when it has any) were made by its present
\* linker: never a linker of one run with the predictions of an earlier one.
C28_PredictionsOfCurrentLinker ==
    ~ predictions.none => (~ linker.none /\ predictions.run = linker.run)

\* What holds: the predictions are never newer than the linker, and they are
\* of the same run after every call that returned.
C28_LinkerAssignedFirst ==
    /\ predictions.run <= linker.run
    /\ (result.op = "run_resolution" /\ ~ result.raised) => ResultsOfOneRun

(***************************************************************************)
(* Properties of the caller's settings (checked under SettingsSpec).       *)
(***************************************************************************)
\* The calls made so far on the caller's dictionary.
CallsMade == caller_settings.calls

\* C25: run_resolution and process_entity_resolution leave the dictionary
\* the caller handed over as it was (the threshold key, the unique id column
\* name, the rule lists and the comparisons), so that a second call with the
\* same dictionary ends as the first one did, with a Linker built from the
\* same settings.
C25_SettingsUnchanged ==
    CallsMade # <<>> =>
        /\ caller_settings.dict = caller_settings.original
        /\ \A i, j \in 1..Len(CallsMade) :
             CallsMade[i].op = CallsMade[j].op =>
                /\ CallsMade[i].raised = CallsMade[j].raised
                /\ CallsMade[i].linker_settings = CallsMade[j].linker_settings

\* What holds: run_resolution changes the dictionary at most by removing the
\* threshold key and setting the unique id column name, and a second
\* run_resolution changes nothing more.
C25_RunResolutionSettlesOnce ==
    (\A i \in 1..Len(CallsMade) : CallsMade[i].op = "run_resolution") =>
        /\ CallsMade # <<>> =>
              caller_settings.dict =
                  SettingsOfRun(caller_settings.original, caller_settings.primary_key_column)
        /\ \A i, j \in 1..Len(CallsMade) :
              CallsMade[i].linker_settings = CallsMade[j].linker_settings

\* A second process_entity_resolution on the dictionary of the first one
\* has raised on a converted comparison.
C25_SecondCallRaised ==
    /\ Len(CallsMade) = 2
    /\ CallsMade[1].op = "process_entity_resolution" /\ ~ CallsMade[1].raised
    /\ CallsMade[2].op = "process_entity_resolution" /\ CallsMade[2].raised

(***************************************************************************)
(* Properties of main.py's demonstration (checked under DemoSpec).         *)
(***************************************************************************)
\* get_clusters(0.5) has answered for the five records, every pair of which
\* was a candidate of the run.
DemoClustered ==
    /\ result.op = "get_clusters" /\ result.threshold = 50
    /\ ~ table.none /\ table.ids = DummyIds
    /\ ~ linker.none /\ linker.nodes = DummyIds /\ linker.blocking_rules = <<>>
    /\ ~ predictions.none /\ predictions.rows # {}

\* C26: on the five records, with every pair a candidate and the name scored
\* by the exact level, the edit-distance level and the catch-all, the
\* clusters at threshold 0.5 are {1, 2, 5}, {3} and {4}.
C26_JmanClustered ==
    (result.op = "get_clusters" /\ result.threshold = 50
        /\ table.ids = DummyIds /\ linker.nodes = DummyIds /\ linker.blocking_rules = <<>>) =>
        DemoClusters(linker.nodes, result.value) = { {1, 2, 5}, {3}, {4} }

\* What holds: no two of the five names agree or are within edit distance
\* 2, so every pair falls in the catch-all level and gets the same score:
\* the five records are one cluster or five.
C26_OneClusterOrNone ==
    /\ (result.op = "run_resolution" /\ table.ids = DummyIds) =>
          \A l, r \in DummyIds : l < r => NameLevel(l, r) = 0
    /\ (result.op = "get_clusters" /\ result.threshold = 50
          /\ table.ids = DummyIds /\ linker.nodes = DummyIds /\ linker.blocking_rules = <<>>) =>
          DemoClusters(linker.nodes, result.value) \in
              { { DummyIds }, { {i} : i \in DummyIds } }

(***************************************************************************)
(* Properties of the API's results endpoints (checked under ApiSpec).      *)
(***************************************************************************)
\* The results endpoints, by the name of their answer.
ResultsEndpoints ==
    {"match_weights_chart", "match_statistics", "score_distribution", "threshold_analysis",
     "clusters", "export_clusters"} \cup ChartsWithoutMethod

\* The results the endpoint op reports do not exist: no run was made, or
\* the last run left no linker or (for all but the match weights chart,
\* which needs the linker alone) no predictions.
ResultsUnavailable(op) ==
    \/ service.engine_none
    \/ linker.none
    \/ (op # "match_weights_chart" /\ predictions.none)

\* C29: a results endpoint asked while its results are unavailable answers
\* with the client error it raises for the case (400 or 404), never 500.
C29_ClientErrorWhenUnavailable ==
    (service.response.op \in ResultsEndpoints /\ ResultsUnavailable(service.response.op)) =>
        service.response.http \in {400, 404}

\* What holds: the four endpoints that re-raise HTTPException (score
\* distribution, threshold analysis, clusters, export) answer 400 while
\* their results are unavailable; the others answer 500.
C29_ReraisingEndpointsAnswer400 ==
    (service.response.op \in ResultsEndpoints /\ ResultsUnavailable(service.response.op)) =>
        IF service.response.op \in
              {"score_distribution", "threshold_analysis", "clusters", "export_clusters"}
        THEN service.response.http = 400
        ELSE service.response.http = 500

\* The match statistics asked before any run.
C29_StatisticsBeforeRun ==
    /\ service.engine_none
    /\ service.response.op = "match_statistics"
    /\ service.response.http = 500

(***************************************************************************)
(* Properties of the training-log stream (checked under LogSpec).          *)
(***************************************************************************)
\* The positions of the log events that carry the entry n, over all streams.
DeliveriesOf(n) ==
    { <<c, i>> \in (1..Len(streams)) \X (1..MaxPolls) :
        /\ i <= Len(streams[c].events)
        /\ streams[c].events[i].event = "log"
        /\ streams[c].events[i].data = n }

\* The positions of the entry n in the queue.
QueuedAt(n) == { i \in 1..Len(training_log_queue) : training_log_queue[i] = n }

====
